---- MODULE Spec2Model ----
(***************************************************************************)
(* A model of the xenstore-rs daemon: the hierarchical store with its      *)
(* copy-on-write ChangeSet overlay (src/src/store.rs), the transaction     *)
(* registry (src/libxenstore/src/transaction.rs), the watch list           *)
(* (src/src/watch.rs), the request dispatch that ties them together        *)
(* (src/src/system.rs, src/libxenstore/src/message/mod.rs) and the server  *)
(* that reads the requests and queues the replies and watch events         *)
(* (src/libxenstore/src/server.rs).                                        *)
(***************************************************************************)
EXTENDS Integers, Sequences, FiniteSets, TLC

VARIABLES
    store,       \* Store.store : HashMap<Path, Node>, a function on the existing paths
    generation,  \* Store.generation : Wrapping<u64>
    txns,        \* TransactionList.list : HashMap<TxId, Transaction>
    watches,     \* WatchList.watches : HashSet<Watch>
    last,        \* the request dispatched last and the Response built for it
    panicked,    \* TRUE once a request handler has panicked (unwrap on None)
    call,        \* a single call of a store function: its arguments and its result
    conns,       \* Server.conns : Slab<Connection>, a function on the occupied tokens
    channel,     \* the event loop's channel: the HashSet<Watch> messages sent, oldest first
    running,     \* FALSE once Server::close has shut the event loop down
    accepted,    \* number of sockets accepted so far
    lastclose    \* the watches and transactions the latest close removed

\* the variables of server.rs
server == <<conns, channel, running, accepted, lastclose>>

vars == <<store, generation, txns, watches, last, panicked, call,
          conns, channel, running, accepted, lastclose>>

\* what a request dispatched by system.rs leaves alone
others == <<call, server>>

----------------------------------------------------------------------------
(* Bounds of the model *)

\* number of requests dispatched in one behaviour
MaxReq == 3
\* transaction ids the random generator can draw (0 is drawn too and rejected)
MaxTxId == 2
\* longest permission list handed to perms_ok on its own
MaxPerms == 2
\* largest domain id handed to perms_ok on its own
MaxDom == 2
\* requests that build the store a single store call starts from
MaxOps == 2
\* depth of the deepest path /a/a/.. handed to a single store call
MaxDepth == 2
\* slots of the slab of connections (Server::new asks for 1024)
MaxSlots == 2
\* sockets accepted in one behaviour
MaxAccepts == 2

----------------------------------------------------------------------------
(* Program constants *)

DOM0_DOMAIN_ID == 0
ROOT_TRANSACTION == 0

PERM_NONE == {}
PERM_READ == {"r"}
PERM_WRITE == {"w"}
PERM_OWNER == {"o"}
PERM_BOTH == {"r", "w"}

----------------------------------------------------------------------------
(* Paths: a path is the sequence of its components below the root.         *)
(* A component ".." is kept as written (PathBuf does not resolve it).      *)

Root == <<>>
DotDot == ".."

Paths ==
    { Root, <<"tool">>, <<"tool", "xenstored">>, <<"a">>, <<"a", DotDot>> }

\* Path::parent: None for the root, otherwise the path without its last component
HasParent(p) == Len(p) > 0
parent(p) == SubSeq(p, 1, Len(p) - 1)

\* Path::basename: file_name() is None for the root and for a path ending in ".."
HasBasename(p) == Len(p) > 0 /\ p[Len(p)] # DotDot
basename(p) == p[Len(p)]

\* Path::push
push(p, component) == Append(p, component)

\* Path::is_child: starts_with on components
is_child(p, par) ==
    Len(par) <= Len(p) /\ SubSeq(p, 1, Len(par)) = par

\* Path::into_iter: the path itself, then every ancestor, ending with "/"
RECURSIVE into_iter(_)
into_iter(p) ==
    IF HasParent(p) THEN <<p>> \o into_iter(parent(p)) ELSE <<Root>>

\* lexicographic rank of the basenames, for the sort in directory()
BasenameRank(b) ==
    CASE b = DotDot -> 0
      [] b = "a" -> 1
      [] b = "tool" -> 2
      [] b = "xenstored" -> 3

----------------------------------------------------------------------------
(* Connections, values, permissions drawn by the requests *)

ConnId(token, dom_id) == [token |-> token, dom_id |-> dom_id]

Conns == { ConnId(1, DOM0_DOMAIN_ID), ConnId(2, 1) }

Values == { "v" }

Permission(id, perm) == [id |-> id, perm |-> perm]

PermLists ==
    { <<Permission(1, PERM_NONE)>>,
      <<Permission(DOM0_DOMAIN_ID, PERM_NONE), Permission(1, PERM_READ)>> }

\* Result<T>
Ok(v) == [ok |-> TRUE, val |-> v]
Err(e) == [ok |-> FALSE, err |-> e]

----------------------------------------------------------------------------
(* store.rs *)

\* index of the first entry of permissions whose id is dom_id, 0 if none
FindPerm(dom_id, permissions) ==
    LET hits == { i \in 1..Len(permissions) : permissions[i].id = dom_id }
    IN IF hits = {} THEN 0 ELSE CHOOSE i \in hits : \A j \in hits : i <= j

\* perms_ok that skips the lookup of the caller's own entry
perms_ok_default_only(dom_id, permissions, perm) ==
    IF dom_id = DOM0_DOMAIN_ID \/ permissions[1].id = dom_id
    THEN TRUE
    ELSE (permissions[1].perm \cap perm) = perm

perms_ok(dom_id, permissions, perm) ==
    LET mask == PERM_READ \cup PERM_WRITE \cup PERM_OWNER
        i == FindPerm(dom_id, permissions)
    IN IF dom_id = DOM0_DOMAIN_ID \/ permissions[1].id = dom_id
       THEN (mask \cap perm) = perm
       ELSE IF i # 0
            THEN (permissions[i].perm \cap perm) = perm
            ELSE (permissions[1].perm \cap perm) = perm

Node(path, value, children, permissions) ==
    [path |-> path, value |-> value, children |-> children,
     permissions |-> permissions]

manual_entry(name, child_list) ==
    Node(name, "", child_list, <<Permission(DOM0_DOMAIN_ID, PERM_NONE)>>)

\* Store::new
StoreNew ==
    [p \in { Root, <<"tool">>, <<"tool", "xenstored">> } |->
        CASE p = Root -> manual_entry(p, {"tool"})
          [] p = <<"tool">> -> manual_entry(p, {"xenstored"})
          [] OTHER -> manual_entry(p, {})]

ChangeWrite(node) == [kind |-> "Write", node |-> node]
ChangeRemove(node) == [kind |-> "Remove", node |-> node]

\* HashMap::new
EmptyMap == [k \in {} |-> k]

\* ChangeSet::new: an empty overlay on the store's current generation
ChangeSetNew(gen) == [parent |-> gen, changes |-> EmptyMap]

\* ChangeSet::insert: HashMap insert keyed by the change's path
insert(cs, change) ==
    [cs EXCEPT !.changes =
        [p \in (DOMAIN cs.changes) \cup {change.node.path} |->
            IF p = change.node.path THEN change ELSE cs.changes[p]]]

RECURSIVE insert_all(_, _)
insert_all(cs, nodes) ==
    IF nodes = <<>> THEN cs
    ELSE insert_all(insert(cs, ChangeWrite(Head(nodes))), Tail(nodes))

AppliedWrite(path, permissions) ==
    [kind |-> "Write", path |-> path, permissions |-> permissions]
AppliedRemove(path) == [kind |-> "Remove", path |-> path]

\* AppliedChange::perms_ok
applied_perms_ok(change, dom_id, perm) ==
    IF change.kind = "Write" THEN perms_ok(dom_id, change.permissions, perm)
    ELSE TRUE

\* the store map after the loop of Store::apply
ApplyStore(st, cs) ==
    LET written == { p \in DOMAIN cs.changes : cs.changes[p].kind = "Write" }
        removed == { p \in DOMAIN cs.changes : cs.changes[p].kind = "Remove" }
    IN [p \in ((DOMAIN st) \cup written) \ removed |->
            IF p \in written THEN cs.changes[p].node ELSE st[p]]

\* the AppliedChange entries pushed by the loop of Store::apply
ApplyChanges(cs) ==
    { IF cs.changes[p].kind = "Write"
      THEN AppliedWrite(p, cs.changes[p].node.permissions)
      ELSE AppliedRemove(p) : p \in DOMAIN cs.changes }

\* what a call of Store::apply did: the generations it compared, the Option
\* it returned (some, applied) and the store and generation it left
Applied(called, cs, gen, some, st2, gen2, applied) ==
    [called |-> called, parent |-> cs.parent, at |-> gen, some |-> some,
     store |-> st2, generation |-> gen2, applied |-> applied]

\* no call of Store::apply
NotApplied(st, gen) ==
    [called |-> FALSE, parent |-> gen, at |-> gen, some |-> FALSE,
     store |-> st, generation |-> gen, applied |-> {}]

\* apply without the generation check: a stale changeset is applied too
apply_unchecked(st, gen, cs) ==
    Applied(TRUE, cs, gen, TRUE, ApplyStore(st, cs), gen + 1, ApplyChanges(cs))

\* apply that forgets to advance the generation
apply_no_bump(st, gen, cs) ==
    IF gen # cs.parent
    THEN Applied(TRUE, cs, gen, FALSE, st, gen, {})
    ELSE Applied(TRUE, cs, gen, TRUE, ApplyStore(st, cs), gen, ApplyChanges(cs))

\* Store::apply: None when the generations differ.  The counter is a
\* Wrapping<u64>; its wrap at 2^64 applied changesets lies beyond the
\* integers of the model checker and is not modelled.
apply(st, gen, cs) ==
    IF gen # cs.parent
    THEN Applied(TRUE, cs, gen, FALSE, st, gen, {})
    ELSE Applied(TRUE, cs, gen, TRUE, ApplyStore(st, cs), gen + 1,
                 ApplyChanges(cs))

\* get_node that skips the permission check
get_node_unchecked(st, cs, dom_id, path, perm) ==
    IF path \in DOMAIN cs.changes
    THEN IF cs.changes[path].kind = "Write"
         THEN Ok(cs.changes[path].node)
         ELSE Err("ENOENT")
    ELSE IF path \in DOMAIN st THEN Ok(st[path]) ELSE Err("ENOENT")

get_node(st, cs, dom_id, path, perm) ==
    LET checked(node) ==
            IF ~node.ok THEN node
            ELSE IF ~perms_ok(dom_id, node.val.permissions, perm)
                 THEN Err("EACCES")
                 ELSE node
    IN checked(IF path \in DOMAIN cs.changes
               THEN IF cs.changes[path].kind = "Write"
                    THEN Ok(cs.changes[path].node)
                    ELSE Err("ENOENT")
               ELSE IF path \in DOMAIN st THEN Ok(st[path]) ELSE Err("ENOENT"))

\* take_while in construct_node: the leading paths whose lookup is ENOENT
RECURSIVE TakeMissing(_, _, _, _)
TakeMissing(st, cs, dom_id, paths) ==
    LET missing(r) == ~r.ok /\ r.err = "ENOENT"
    IN IF paths = <<>> THEN <<>>
       ELSE IF missing(get_node(st, cs, dom_id, Head(paths), PERM_WRITE))
            THEN <<Head(paths)>> \o TakeMissing(st, cs, dom_id, Tail(paths))
            ELSE <<>>

\* the loop of construct_node: to_create is walked from its back (the
\* topmost missing path) to its front; list has the latest node at its front
RECURSIVE CreateChain(_, _, _)
CreateChain(list, to_create, dom_id) ==
    IF to_create = <<>> THEN list
    ELSE LET path == to_create[Len(to_create)]
             par == Head(list)
             par2 == IF HasBasename(path)
                     THEN [par EXCEPT !.children = @ \cup {basename(path)}]
                     ELSE par
             permissions ==
                 IF dom_id # DOM0_DOMAIN_ID
                 THEN [par2.permissions EXCEPT ![1].id = dom_id]
                 ELSE par2.permissions
             node == Node(path, "", {}, permissions)
         IN CreateChain(<<node, par2>> \o Tail(list),
                        SubSeq(to_create, 1, Len(to_create) - 1), dom_id)

\* construct_node that leaves the owner slot of the new nodes alone
construct_node_keeps_owner(st, cs, dom_id, path, value) ==
    LET finish(list) == Ok([list EXCEPT ![1].value = value])
        below(paths_to_create, par) ==
            IF ~par.ok
            THEN (IF par.err = "ENOENT" THEN Err("PANIC") ELSE par)
            ELSE finish(CreateChain(<<par.val>>, paths_to_create,
                                    DOM0_DOMAIN_ID))
        from(paths_to_create, top) ==
            IF ~HasParent(top) THEN Err("PANIC")
            ELSE below(paths_to_create,
                       get_node(st, cs, dom_id, parent(top), PERM_WRITE))
        create(paths_to_create) ==
            IF paths_to_create = <<>> THEN Err("EACCES")
            ELSE from(paths_to_create, paths_to_create[Len(paths_to_create)])
    IN create(TakeMissing(st, cs, dom_id, into_iter(path)))

construct_node(st, cs, dom_id, path, value) ==
    LET finish(list) == Ok([list EXCEPT ![1].value = value])
        below(paths_to_create, par) ==
            IF ~par.ok
            THEN (IF par.err = "ENOENT" THEN Err("PANIC") ELSE par)
            ELSE finish(CreateChain(<<par.val>>, paths_to_create, dom_id))
        from(paths_to_create, top) ==
            IF ~HasParent(top) THEN Err("PANIC")
            ELSE below(paths_to_create,
                       get_node(st, cs, dom_id, parent(top), PERM_WRITE))
        create(paths_to_create) ==
            IF paths_to_create = <<>> THEN Err("EACCES")
            ELSE from(paths_to_create, paths_to_create[Len(paths_to_create)])
    IN create(TakeMissing(st, cs, dom_id, into_iter(path)))

write(st, cs, dom_id, path, value) ==
    LET created(nodes) ==
            IF ~nodes.ok THEN nodes ELSE Ok(insert_all(cs, nodes.val))
        found(node) ==
            IF node.ok
            THEN Ok(insert(cs, ChangeWrite([node.val EXCEPT !.value = value])))
            ELSE created(construct_node(st, cs, dom_id, path, value))
    IN found(get_node(st, cs, dom_id, path, PERM_WRITE))

\* read that looks the node up in the store alone, not in the changeset
read_store_only(st, cs, dom_id, path) ==
    LET found(node) == IF node.ok THEN Ok(node.val.value) ELSE node
    IN found(get_node(st, ChangeSetNew(cs.parent), dom_id, path, PERM_READ))

read(st, cs, dom_id, path) ==
    LET found(node) == IF node.ok THEN Ok(node.val.value) ELSE node
    IN found(get_node(st, cs, dom_id, path, PERM_READ))

\* mkdir that writes the empty value over a node that exists
mkdir_rewrites(st, cs, dom_id, path) ==
    LET created(nodes) ==
            IF ~nodes.ok THEN nodes ELSE Ok(insert_all(cs, nodes.val))
        found(node) ==
            IF node.ok
            THEN Ok(insert(cs, ChangeWrite([node.val EXCEPT !.value = ""])))
            ELSE IF node.err = "ENOENT"
                 THEN created(construct_node(st, cs, dom_id, path, ""))
                 ELSE node
    IN found(get_node(st, cs, dom_id, path, PERM_WRITE))

mkdir(st, cs, dom_id, path) ==
    LET created(nodes) ==
            IF ~nodes.ok THEN nodes ELSE Ok(insert_all(cs, nodes.val))
        found(node) ==
            IF node.ok THEN Ok(cs)
            ELSE IF node.err = "ENOENT"
                 THEN created(construct_node(st, cs, dom_id, path, ""))
                 ELSE node
    IN found(get_node(st, cs, dom_id, path, PERM_WRITE))

\* a set of basenames as a sequence sorted by BasenameRank
RECURSIVE SortBasenames(_)
SortBasenames(s) ==
    IF s = {} THEN <<>>
    ELSE LET m == CHOOSE b \in s : \A c \in s : BasenameRank(b) <= BasenameRank(c)
         IN <<m>> \o SortBasenames(s \ {m})

directory(st, cs, dom_id, path) ==
    LET found(node) ==
            IF node.ok THEN Ok(SortBasenames(node.val.children)) ELSE node
    IN found(get_node(st, cs, dom_id, path, PERM_READ))

\* the while loop of rm: remove is the queue of paths still to visit
RECURSIVE RemoveLoop(_, _, _, _, _)
RemoveLoop(st, change_set, changes, dom_id, remove) ==
    LET queued(path, kids) == [i \in 1..Len(kids) |-> push(path, kids[i])]
        visit(path, node) ==
            IF ~node.ok THEN node
            ELSE RemoveLoop(st, change_set,
                            insert(changes, ChangeRemove(node.val)), dom_id,
                            Tail(remove)
                                \o queued(path, SortBasenames(node.val.children)))
    IN IF remove = <<>> THEN Ok(changes)
       ELSE visit(Head(remove),
                  get_node(st, change_set, dom_id, Head(remove), PERM_WRITE))

\* rm that leaves the basename in the parent's children
rm_keeps_child(st, change_set, dom_id, path) ==
    LET from(par) ==
            IF ~par.ok THEN par
            ELSE RemoveLoop(st, change_set,
                            insert(change_set, ChangeWrite(par.val)),
                            dom_id, <<path>>)
    IN IF path = Root THEN Err("EINVAL")
       ELSE IF ~HasBasename(path) THEN Err("PANIC")
       ELSE from(get_node(st, change_set, dom_id, parent(path), PERM_WRITE))

rm(st, change_set, dom_id, path) ==
    LET unlinked(parent_node) ==
            [parent_node EXCEPT !.children = @ \ {basename(path)}]
        from(par) ==
            IF ~par.ok THEN par
            ELSE RemoveLoop(st, change_set,
                            insert(change_set, ChangeWrite(unlinked(par.val))),
                            dom_id, <<path>>)
    IN IF path = Root THEN Err("EINVAL")
       ELSE IF ~HasBasename(path) THEN Err("PANIC")
       ELSE from(get_node(st, change_set, dom_id, parent(path), PERM_WRITE))

get_perms(st, cs, dom_id, path) ==
    LET found(node) == IF node.ok THEN Ok(node.val.permissions) ELSE node
    IN found(get_node(st, cs, dom_id, path, PERM_READ))

\* set_perms that keeps the first entry of the node's list
set_perms_keeps_owner(st, cs, dom_id, path, permissions) ==
    LET found(node) ==
            IF ~node.ok THEN node
            ELSE Ok(insert(cs, ChangeWrite([node.val EXCEPT
                      !.permissions = <<Head(@)>> \o Tail(permissions)])))
    IN found(get_node(st, cs, dom_id, path, PERM_WRITE))

set_perms(st, cs, dom_id, path, permissions) ==
    LET found(node) ==
            IF ~node.ok THEN node
            ELSE Ok(insert(cs, ChangeWrite([node.val EXCEPT
                                               !.permissions = permissions])))
    IN found(get_node(st, cs, dom_id, path, PERM_WRITE))

----------------------------------------------------------------------------
(* transaction.rs *)

Transaction(conn, changes) == [conn |-> conn, changes |-> changes]

\* generate_txid that returns the first id drawn
generate_txid_first_draw(list) == 0..MaxTxId

\* the ids generate_txid can return: a drawn id that is 0 or live is re-drawn
generate_txid(list) ==
    { id \in 0..MaxTxId : id # ROOT_TRANSACTION /\ id \notin DOMAIN list }

\* TransactionList::start with the id drawn by generate_txid
txn_start(list, conn, gen, next_id) ==
    [id \in (DOMAIN list) \cup {next_id} |->
        IF id = next_id THEN Transaction(conn, ChangeSetNew(gen)) ELSE list[id]]

txn_get(list, conn, tx_id) ==
    IF tx_id \notin DOMAIN list THEN Err("ENOENT")
    ELSE IF list[tx_id].conn # conn THEN Err("ENOENT")
    ELSE Ok(list[tx_id].changes)

\* put that replaces the changeset of every transaction of the connection
txn_put_all(list, conn, tx_id, changes) ==
    IF tx_id \notin DOMAIN list THEN Err("ENOENT")
    ELSE IF list[tx_id].conn # conn THEN Err("ENOENT")
    ELSE Ok([id \in DOMAIN list |->
                IF list[id].conn = conn
                THEN [list[id] EXCEPT !.changes = changes]
                ELSE list[id]])

txn_put(list, conn, tx_id, changes) ==
    IF tx_id \notin DOMAIN list THEN Err("ENOENT")
    ELSE IF list[tx_id].conn # conn THEN Err("ENOENT")
    ELSE Ok([list EXCEPT ![tx_id].changes = changes])

\* end without the ownership check
txn_end_any_owner(list, st, gen, conn, tx_id, success) ==
    IF tx_id \notin DOMAIN list THEN Err("ENOENT")
    ELSE LET changes == list[tx_id].changes
             rest == [id \in (DOMAIN list) \ {tx_id} |-> list[id]]
             a == IF success THEN apply(st, gen, changes)
                  ELSE NotApplied(st, gen)
         IN Ok([list |-> rest, applied |-> a])

\* end that applies the changeset whatever the status
txn_end_always_applies(list, st, gen, conn, tx_id, success) ==
    IF tx_id \notin DOMAIN list THEN Err("ENOENT")
    ELSE IF list[tx_id].conn # conn THEN Err("ENOENT")
    ELSE LET changes == list[tx_id].changes
             rest == [id \in (DOMAIN list) \ {tx_id} |-> list[id]]
         IN Ok([list |-> rest, applied |-> apply(st, gen, changes)])

\* TransactionList::end: the registry, the store and the Option of applied changes
txn_end(list, st, gen, conn, tx_id, success) ==
    IF tx_id \notin DOMAIN list THEN Err("ENOENT")
    ELSE IF list[tx_id].conn # conn THEN Err("ENOENT")
    ELSE LET changes == list[tx_id].changes
             rest == [id \in (DOMAIN list) \ {tx_id} |-> list[id]]
             a == IF success THEN apply(st, gen, changes)
                  ELSE NotApplied(st, gen)
         IN Ok([list |-> rest, applied |-> a])

\* reset that leaves the registry as it is
txn_reset_keeps(list, conn) == list

txn_reset(list, conn) ==
    [id \in { i \in DOMAIN list : list[i].conn # conn } |-> list[id]]

----------------------------------------------------------------------------
(* watch.rs *)

WNormal(path) == <<"Normal", path>>
WIntroduceDomain == <<"IntroduceDomain">>
WReleaseDomain == <<"ReleaseDomain">>

Watch(conn, node, token) == [conn |-> conn, node |-> node, token |-> token]

\* matches that lets the removal of the watched path match as well
matches_removed(w, change) ==
    IF change.kind \in { "Write", "Remove" } /\ w.node[1] = "Normal"
    THEN change.path = w.node[2]
         /\ applied_perms_ok(change, w.conn.dom_id, PERM_READ)
    ELSE FALSE

\* matches in its subtree variant: a change below the watched path matches
matches_subtree(w, change) ==
    IF change.kind = "Write" /\ w.node[1] = "Normal"
    THEN is_child(change.path, w.node[2])
         /\ applied_perms_ok(change, w.conn.dom_id, PERM_READ)
    ELSE FALSE

matches(w, change) ==
    IF change.kind = "Write" /\ w.node[1] = "Normal"
    THEN change.path = w.node[2]
         /\ applied_perms_ok(change, w.conn.dom_id, PERM_READ)
    ELSE IF change.kind = "IntroduceDomain" /\ w.node[1] = "IntroduceDomain"
    THEN TRUE
    ELSE IF change.kind = "ReleaseDomain" /\ w.node[1] = "ReleaseDomain"
    THEN TRUE
    ELSE FALSE

watch(ws, conn, node, token) ==
    IF Watch(conn, node, token) \in ws THEN Err("EEXIST")
    ELSE Ok(ws \cup {Watch(conn, node, token)})

\* unwatch that removes every watch of the connection on the node
unwatch_any_token(ws, conn, node, token) ==
    IF Watch(conn, node, token) \notin ws THEN Err("ENOENT")
    ELSE Ok({ w \in ws : ~(w.conn = conn /\ w.node = node) })

unwatch(ws, conn, node, token) ==
    IF Watch(conn, node, token) \notin ws THEN Err("ENOENT")
    ELSE Ok(ws \ {Watch(conn, node, token)})

watch_reset(ws, conn) == { w \in ws : w.conn # conn }

fire_single(ws, single) == { w \in ws : matches(w, single) }

\* WatchList::fire on the Option returned by apply
fire(ws, a) ==
    IF a.some THEN UNION { fire_single(ws, change) : change \in a.applied }
    ELSE {}

----------------------------------------------------------------------------
(* system.rs *)

\* what a dispatch leaves behind: the Result, what apply did (the store and
\* generation it left included), the registry and the watches that fired
Outcome(r, applied, list, events) ==
    [r |-> r, applied |-> applied, txns |-> list, events |-> events]

\* the closure a handler passes to do_store_mut or do_store: the store
\* operation of the request, on behalf of the domain of its connection
thunk(req, st, cs) ==
    LET dom_id == req.md.conn.dom_id
    IN CASE req.msg_type = "XS_DIRECTORY" -> directory(st, cs, dom_id, req.path)
         [] req.msg_type = "XS_READ" -> read(st, cs, dom_id, req.path)
         [] req.msg_type = "XS_GET_PERMS" -> get_perms(st, cs, dom_id, req.path)
         [] req.msg_type = "XS_MKDIR" -> mkdir(st, cs, dom_id, req.path)
         [] req.msg_type = "XS_RM" -> rm(st, cs, dom_id, req.path)
         [] req.msg_type = "XS_WRITE" -> write(st, cs, dom_id, req.path, req.arg)
         [] req.msg_type = "XS_SET_PERMS" ->
                set_perms(st, cs, dom_id, req.path, req.arg)

\* do_store_mut that does not call apply for a root changeset without
\* changes
do_store_mut_skips_empty(conn, tx_id, req) ==
    LET untouched == NotApplied(store, generation)
        root(applied) ==
            Outcome(Ok(TRUE), applied, txns, fire(watches, applied))
        kept(stored) ==
            IF ~stored.ok THEN Outcome(stored, untouched, txns, {})
            ELSE Outcome(Ok(TRUE), untouched, stored.val, {})
        done(changes) ==
            IF ~changes.ok THEN Outcome(changes, untouched, txns, {})
            ELSE IF tx_id = ROOT_TRANSACTION
                 THEN IF changes.val.changes = EmptyMap
                      THEN Outcome(Ok(TRUE), untouched, txns, {})
                      ELSE root(apply(store, generation, changes.val))
                 ELSE kept(txn_put(txns, conn, tx_id, changes.val))
        with(changeset) ==
            IF ~changeset.ok THEN Outcome(changeset, untouched, txns, {})
            ELSE done(thunk(req, store, changeset.val))
    IN with(IF tx_id = ROOT_TRANSACTION THEN Ok(ChangeSetNew(generation))
            ELSE txn_get(txns, conn, tx_id))

\* do_store_mut for the request req
do_store_mut(conn, tx_id, req) ==
    LET untouched == NotApplied(store, generation)
        root(applied) ==
            Outcome(Ok(TRUE), applied, txns, fire(watches, applied))
        kept(stored) ==
            IF ~stored.ok THEN Outcome(stored, untouched, txns, {})
            ELSE Outcome(Ok(TRUE), untouched, stored.val, {})
        done(changes) ==
            IF ~changes.ok THEN Outcome(changes, untouched, txns, {})
            ELSE IF tx_id = ROOT_TRANSACTION
                 THEN root(apply(store, generation, changes.val))
                 ELSE kept(txn_put(txns, conn, tx_id, changes.val))
        with(changeset) ==
            IF ~changeset.ok THEN Outcome(changeset, untouched, txns, {})
            ELSE done(thunk(req, store, changeset.val))
    IN with(IF tx_id = ROOT_TRANSACTION THEN Ok(ChangeSetNew(generation))
            ELSE txn_get(txns, conn, tx_id))

\* do_store for the read-only request req
do_store(conn, tx_id, req) ==
    LET with(changeset) ==
            IF ~changeset.ok THEN changeset
            ELSE thunk(req, store, changeset.val)
    IN with(IF tx_id = ROOT_TRANSACTION THEN Ok(ChangeSetNew(generation))
            ELSE txn_get(txns, conn, tx_id))

----------------------------------------------------------------------------
(* message/mod.rs, message/egress.rs *)

Metadata(conn, req_id, tx_id) == [conn |-> conn, req_id |-> req_id, tx_id |-> tx_id]

\* an egress message: its type, the metadata it echoes and its payload
Egress(msg_type, md, payload) ==
    [msg_type |-> msg_type, md |-> md, payload |-> payload]

\* egress::ErrorMsg::from
ErrorMsg(md, err) == Egress("XS_ERROR", md, err)

None == [some |-> FALSE, set |-> {}]
Some(s) == [some |-> TRUE, set |-> s]

Request(msg_type, md, path, arg) ==
    [msg_type |-> msg_type, md |-> md, path |-> path, arg |-> arg]

\* the request dispatched, the Response built for it (Response::new,
\* Response::new_with_events) and the call of Store::apply made on the way
Response(req, msg, watch_events, applied) ==
    [req |-> req, msg |-> msg, watch_events |-> watch_events,
     apply |-> [called |-> applied.called, parent |-> applied.parent,
                at |-> applied.at, some |-> applied.some,
                applied |-> applied.applied]]

NoRequest ==
    Request("NONE", Metadata(ConnId(0, DOM0_DOMAIN_ID), 0, ROOT_TRANSACTION),
            Root, "")

\* the transaction ids a request can carry: the root transaction, every live
\* id, and one id that is not live standing for all unknown ids
UnknownTxIds == { id \in 1..MaxTxId : id \notin DOMAIN txns }
TxIds ==
    {ROOT_TRANSACTION} \cup (DOMAIN txns) \cup
    (IF UnknownTxIds = {} THEN {}
     ELSE {CHOOSE id \in UnknownTxIds : \A other \in UnknownTxIds : id <= other})

\* the next request of a client: request ids count the requests dispatched
NextMd(conn, tx_id) == Metadata(conn, last.req.md.req_id + 1, tx_id)

\* a request is dispatched while the dispatching thread is alive and fewer
\* than MaxReq requests have been dispatched
CanDispatch == ~panicked /\ last.req.md.req_id < MaxReq

\* a handler built on do_store_mut: reply with the message on success, with
\* an ErrorMsg on failure; a panic takes the dispatching thread down
StoreMutReply(req, out) ==
    IF ~out.r.ok /\ out.r.err = "PANIC"
    THEN /\ panicked' = TRUE
         /\ last' = Response(req, Egress("NONE", req.md, ""), None, out.applied)
         /\ UNCHANGED <<store, generation, txns, watches>>
    ELSE /\ store' = out.applied.store
         /\ generation' = out.applied.generation
         /\ txns' = out.txns
         /\ last' = IF out.r.ok
                    THEN Response(req, Egress(req.msg_type, req.md, ""),
                                  Some(out.events), out.applied)
                    ELSE Response(req, ErrorMsg(req.md, out.r.err), None,
                                  out.applied)
         /\ UNCHANGED <<watches, panicked>>

\* a handler built on do_store
StoreReply(req, r) ==
    /\ last' = IF r.ok
               THEN Response(req, Egress(req.msg_type, req.md, r.val), None,
                             NotApplied(store, generation))
               ELSE Response(req, ErrorMsg(req.md, r.err), None,
                             NotApplied(store, generation))
    /\ UNCHANGED <<store, generation, txns, watches, panicked>>

ProcessDirectory(conn, tx_id, path) ==
    LET req == Request("XS_DIRECTORY", NextMd(conn, tx_id), path, "")
    IN StoreReply(req, do_store(conn, tx_id, req))

ProcessRead(conn, tx_id, path) ==
    LET req == Request("XS_READ", NextMd(conn, tx_id), path, "")
    IN StoreReply(req, do_store(conn, tx_id, req))

ProcessGetPerms(conn, tx_id, path) ==
    LET req == Request("XS_GET_PERMS", NextMd(conn, tx_id), path, "")
    IN StoreReply(req, do_store(conn, tx_id, req))

ProcessMkdir(conn, tx_id, path) ==
    LET req == Request("XS_MKDIR", NextMd(conn, tx_id), path, "")
    IN StoreMutReply(req, do_store_mut(conn, tx_id, req))

ProcessRemove(conn, tx_id, path) ==
    LET req == Request("XS_RM", NextMd(conn, tx_id), path, "")
    IN StoreMutReply(req, do_store_mut(conn, tx_id, req))

ProcessWrite(conn, tx_id, path, value) ==
    LET req == Request("XS_WRITE", NextMd(conn, tx_id), path, value)
    IN StoreMutReply(req, do_store_mut(conn, tx_id, req))

ProcessSetPerms(conn, tx_id, path, perms) ==
    LET req == Request("XS_SET_PERMS", NextMd(conn, tx_id), path, perms)
    IN StoreMutReply(req, do_store_mut(conn, tx_id, req))

ProcessWatch(conn, tx_id, node, token) ==
    /\ LET md == NextMd(conn, tx_id)
           req == Request("XS_WATCH", md, node, token)
           r == watch(watches, conn, node, token)
           untouched == NotApplied(store, generation)
       IN /\ watches' = IF r.ok THEN r.val ELSE watches
          /\ last' = IF r.ok
                     THEN Response(req, Egress("XS_WATCH", md, ""), None, untouched)
                     ELSE Response(req, ErrorMsg(md, r.err), None, untouched)
    /\ UNCHANGED <<store, generation, txns, panicked>>

ProcessUnwatch(conn, tx_id, node, token) ==
    /\ LET md == NextMd(conn, tx_id)
           req == Request("XS_UNWATCH", md, node, token)
           r == unwatch(watches, conn, node, token)
           untouched == NotApplied(store, generation)
       IN /\ watches' = IF r.ok THEN r.val ELSE watches
          /\ last' = IF r.ok
                     THEN Response(req, Egress("XS_UNWATCH", md, ""), None, untouched)
                     ELSE Response(req, ErrorMsg(md, r.err), None, untouched)
    /\ UNCHANGED <<store, generation, txns, panicked>>

ProcessTransactionStart(conn, tx_id) ==
    /\ \E next_id \in generate_txid(txns) :
          LET md == NextMd(conn, tx_id)
              req == Request("XS_TRANSACTION_START", md, Root, "")
          IN /\ txns' = txn_start(txns, conn, generation, next_id)
             /\ last' = Response(req, Egress("XS_TRANSACTION_START", md, next_id),
                                 None, NotApplied(store, generation))
    /\ UNCHANGED <<store, generation, watches, panicked>>

ProcessTransactionEnd(conn, tx_id, value) ==
    /\ LET md == NextMd(conn, tx_id)
           req == Request("XS_TRANSACTION_END", md, Root, value)
           reply(r) ==
               IF r.ok
               THEN /\ txns' = r.val.list
                    /\ store' = r.val.applied.store
                    /\ generation' = r.val.applied.generation
                    /\ last' = Response(req, Egress("XS_TRANSACTION_END", md, ""),
                                        Some(fire(watches, r.val.applied)),
                                        r.val.applied)
               ELSE /\ last' = Response(req, ErrorMsg(md, r.err), None,
                                        NotApplied(store, generation))
                    /\ UNCHANGED <<store, generation, txns>>
       IN reply(txn_end(txns, store, generation, conn, tx_id, value))
    /\ UNCHANGED <<watches, panicked>>

----------------------------------------------------------------------------
(* Specification *)

\* the nodes the clients watch and the tokens they give
WNodes ==
    { WNormal(p) : p \in { <<"tool">>, <<"a">> } }
        \cup { WIntroduceDomain }

Tokens == { WNormal(<<"tool">>) }

\* no store function is being called
NoCall == [fn |-> "none", done |-> FALSE]

\* Server::new: an empty slab, nothing sent on the channel
ServerNew ==
    /\ conns = EmptyMap
    /\ channel = <<>>
    /\ running = TRUE
    /\ accepted = 0
    /\ lastclose = [watches |-> {}, txns |-> {}]

Init ==
    /\ store = StoreNew
    /\ generation = 0
    /\ txns = EmptyMap
    /\ watches = {}
    /\ last = Response(NoRequest, Egress("NONE", NoRequest.md, ""), None,
                       NotApplied(StoreNew, 0))
    /\ panicked = FALSE
    /\ call = NoCall
    /\ ServerNew

\* the paths and permission lists a store request names.  A request whose
\* transaction lookup fails returns before its store operation looks at
\* them, so a single path and a single list stand for all of them there.
PathsOf(conn, tx_id) ==
    IF tx_id = ROOT_TRANSACTION \/ txn_get(txns, conn, tx_id).ok
    THEN Paths
    ELSE { Root }

PermListsOf(conn, tx_id) ==
    IF tx_id = ROOT_TRANSACTION \/ txn_get(txns, conn, tx_id).ok
    THEN PermLists
    ELSE { <<Permission(1, PERM_NONE)>> }

\* the status a TRANSACTION_END carries: TransactionList::end fails its
\* lookup before it looks at the status
StatusesOf(conn, tx_id) ==
    IF txn_get(txns, conn, tx_id).ok THEN BOOLEAN ELSE { TRUE }

Next ==
    \/ CanDispatch /\ \E conn \in Conns, tx_id \in TxIds :
          \E path \in PathsOf(conn, tx_id) : ProcessMkdir(conn, tx_id, path)
             /\ UNCHANGED others
    \/ CanDispatch /\ \E conn \in Conns, tx_id \in TxIds :
          \E path \in PathsOf(conn, tx_id) : ProcessRemove(conn, tx_id, path)
             /\ UNCHANGED others
    \/ CanDispatch /\ \E conn \in Conns, tx_id \in TxIds, value \in Values :
          \E path \in PathsOf(conn, tx_id) :
             ProcessWrite(conn, tx_id, path, value)
             /\ UNCHANGED others
    \/ CanDispatch /\ \E conn \in Conns, tx_id \in TxIds :
          \E path \in PathsOf(conn, tx_id), perms \in PermListsOf(conn, tx_id) :
             ProcessSetPerms(conn, tx_id, path, perms)
             /\ UNCHANGED others
    \/ CanDispatch /\ \E conn \in Conns, node \in WNodes, token \in Tokens :
          ProcessWatch(conn, ROOT_TRANSACTION, node, token)
             /\ UNCHANGED others
    \/ CanDispatch /\ \E conn \in Conns, node \in WNodes, token \in Tokens :
          ProcessUnwatch(conn, ROOT_TRANSACTION, node, token)
             /\ UNCHANGED others
    \/ CanDispatch /\ \E conn \in Conns :
          ProcessTransactionStart(conn, ROOT_TRANSACTION)
             /\ UNCHANGED others
    \/ CanDispatch /\ \E conn \in Conns, tx_id \in TxIds :
          \E value \in StatusesOf(conn, tx_id) :
             ProcessTransactionEnd(conn, tx_id, value)
             /\ UNCHANGED others

Spec == Init /\ [][Next]_vars

----------------------------------------------------------------------------
(* perms_ok on its own: every caller, permission list and requested mode *)

\* the Perm values the source names
Modes == { PERM_NONE, PERM_READ, PERM_WRITE, PERM_BOTH, PERM_OWNER }

DomIds == 0..MaxDom

\* the non-empty permission lists of at most MaxPerms entries
PermissionLists ==
    UNION { [1..k -> { Permission(id, perm) : id \in DomIds, perm \in Modes }]
            : k \in 1..MaxPerms }

PermsCall(dom_id, permissions, perm) ==
    [fn |-> "perms_ok", done |-> FALSE, dom_id |-> dom_id,
     permissions |-> permissions, perm |-> perm]

PermInit ==
    /\ store = StoreNew
    /\ generation = 0
    /\ txns = EmptyMap
    /\ watches = {}
    /\ last = Response(NoRequest, Egress("NONE", NoRequest.md, ""), None,
                       NotApplied(StoreNew, 0))
    /\ panicked = FALSE
    /\ ServerNew
    /\ call \in { PermsCall(dom_id, permissions, perm) :
                     dom_id \in DomIds, permissions \in PermissionLists,
                     perm \in Modes }

CallPermsOk ==
    /\ call.fn = "perms_ok"
    /\ ~call.done
    /\ call' = [fn |-> "perms_ok", done |-> TRUE, dom_id |-> call.dom_id,
                permissions |-> call.permissions, perm |-> call.perm,
                result |-> perms_ok(call.dom_id, call.permissions, call.perm)]
    /\ UNCHANGED <<store, generation, txns, watches, last, panicked, server>>

PermNext == CallPermsOk

PermSpec == PermInit /\ [][PermNext]_vars

----------------------------------------------------------------------------
(* Properties *)

\* a step that dispatches a request
Dispatch == last'.req.md.req_id = last.req.md.req_id + 1

Mutations == { "XS_WRITE", "XS_MKDIR", "XS_RM", "XS_SET_PERMS" }

\* the transaction the request of the step names is live and owned by conn
OwnsTx(md) == md.tx_id \in DOMAIN txns /\ txns[md.tx_id].conn = md.conn
ForeignTx(md) == md.tx_id \in DOMAIN txns /\ txns[md.tx_id].conn # md.conn

\* C1: whenever Store::apply is called it returns a change list if and only
\* if the changeset's parent generation equals the store's generation at the
\* moment of the call.
C1_ApplyIffSameGeneration ==
    last.apply.called => (last.apply.some <=> (last.apply.parent = last.apply.at))

\* a commit whose changeset was stale: apply was called and returned None
C1_Witness ==
    /\ last.req.msg_type = "XS_TRANSACTION_END"
    /\ last.apply.called
    /\ ~last.apply.some
    /\ last.apply.parent # last.apply.at

\* C2: a TRANSACTION_END that commits a transaction started before the
\* store's current generation is answered with an EAGAIN error reply and
\* leaves the store as it was.
C2_StaleCommitRepliesEAGAIN ==
    [][(/\ Dispatch
        /\ last'.req.msg_type = "XS_TRANSACTION_END"
        /\ last'.req.arg = TRUE
        /\ OwnsTx(last'.req.md)
        /\ txns[last'.req.md.tx_id].changes.parent # generation)
       => (/\ last'.msg.msg_type = "XS_ERROR"
           /\ last'.msg.payload = "EAGAIN"
           /\ store' = store)]_vars

\* C3: a WRITE, MKDIR, RM or SET_PERMS under a non-zero transaction id
\* changes nothing but that transaction's changeset: the store, the
\* generation, the watches and every other transaction stay as they were and
\* no watch fires.
C3_TransactionMutationIsLocal ==
    [][(/\ Dispatch
        /\ last'.req.msg_type \in Mutations
        /\ last'.req.md.tx_id # ROOT_TRANSACTION)
       => (/\ store' = store
           /\ generation' = generation
           /\ watches' = watches
           /\ DOMAIN txns' = DOMAIN txns
           /\ \A id \in DOMAIN txns :
                 id # last'.req.md.tx_id => txns'[id] = txns[id]
           /\ ~last'.apply.called
           /\ last'.watch_events.set = {})]_vars

\* a mutation stored in a transaction while a watch is registered on the
\* very path it wrote
C3_Witness ==
    /\ last.req.msg_type \in Mutations
    /\ last.req.md.tx_id \in DOMAIN txns
    /\ last.msg.msg_type # "XS_ERROR"
    /\ last.req.path \in DOMAIN txns[last.req.md.tx_id].changes.changes
    /\ \E w \in watches : w.node = WNormal(last.req.path)

\* C4: inside an open transaction, what a path the transaction has not
\* written reads as never changes: it stays the value of the store at the
\* start of the transaction whatever is applied to the store meanwhile.
C4_SnapshotIsolation ==
    [][\A id \in DOMAIN txns : \A p \in Paths :
          (/\ id \in DOMAIN txns'
           /\ p \notin DOMAIN txns[id].changes.changes
           /\ p \notin DOMAIN txns'[id].changes.changes)
          => read(store', txns'[id].changes, txns[id].conn.dom_id, p)
               = read(store, txns[id].changes, txns[id].conn.dom_id, p)]_vars

\* C5: every node of the store other than the root has an existing parent
\* node whose children contain the node's basename.
C5_NodesAreLinkedFromParent ==
    \A p \in DOMAIN store :
        p # Root =>
            /\ parent(p) \in DOMAIN store
            /\ HasBasename(p)
            /\ basename(p) \in store[parent(p)].children

\* C6: every basename in a node's children resolves to an existing node.
C6_ChildrenResolve ==
    \A p \in DOMAIN store :
        \A c \in store[p].children : push(p, c) \in DOMAIN store

\* a subtree was removed from the store and nodes with children remain
C6_Witness ==
    /\ last.req.msg_type = "XS_RM"
    /\ last.apply.some
    /\ \E c \in last.apply.applied : c.kind = "Remove"
    /\ \E p \in DOMAIN store : store[p].children # {}

C8_ForeignTransactionENOENT ==
    [][(/\ Dispatch
        /\ last'.req.msg_type \in Mutations \cup {"XS_TRANSACTION_END"}
        /\ ForeignTx(last'.req.md))
       => (/\ last'.msg.msg_type = "XS_ERROR"
           /\ last'.msg.payload = "ENOENT"
           /\ txns' = txns
           /\ store' = store
           /\ generation' = generation
           /\ ~last'.apply.called)]_vars

\* another connection tried to end a live transaction that holds changes
C8_Witness ==
    /\ last.req.msg_type = "XS_TRANSACTION_END"
    /\ last.req.md.tx_id \in DOMAIN txns
    /\ txns[last.req.md.tx_id].conn # last.req.md.conn
    /\ txns[last.req.md.tx_id].changes.changes # EmptyMap
    /\ last.msg.msg_type = "XS_ERROR"

\* C9: ending an owned transaction with Failure removes it from the
\* registry, leaves the store and the generation unchanged and yields no
\* applied changes, so that no watch fires.
C9_AbortDiscards ==
    [][(/\ Dispatch
        /\ last'.req.msg_type = "XS_TRANSACTION_END"
        /\ last'.req.arg = FALSE
        /\ OwnsTx(last'.req.md))
       => (/\ DOMAIN txns' = (DOMAIN txns) \ {last'.req.md.tx_id}
           /\ \A id \in DOMAIN txns' : txns'[id] = txns[id]
           /\ store' = store
           /\ generation' = generation
           /\ ~last'.apply.some
           /\ last'.apply.applied = {}
           /\ last'.watch_events.set = {}
           /\ last'.msg.msg_type = "XS_TRANSACTION_END")]_vars

\* a transaction was aborted while a watch was registered
C9_Witness ==
    /\ last.req.msg_type = "XS_TRANSACTION_END"
    /\ last.req.arg = FALSE
    /\ last.msg.msg_type = "XS_TRANSACTION_END"
    /\ last.req.md.tx_id \notin DOMAIN txns
    /\ watches # {}

\* read permission as the specification defines it
CanRead(dom_id, permissions) ==
    IF dom_id = 0 \/ permissions[1].id = dom_id THEN TRUE
    ELSE IF \E i \in 1..Len(permissions) : permissions[i].id = dom_id
         THEN \E i \in 1..Len(permissions) :
                 /\ permissions[i].id = dom_id
                 /\ \A j \in 1..(i - 1) : permissions[j].id # dom_id
                 /\ "r" \in permissions[i].perm
         ELSE "r" \in permissions[1].perm

\* C10: when a changeset is applied, a watch on a path fires if and only if
\* the changeset wrote exactly that path and the watch owner's domain can
\* read the written node.
C10_WatchFiresOnExactReadableWrite ==
    (last.apply.called /\ last.apply.some) =>
        \A w \in watches :
            w.node[1] = "Normal" =>
                ((w \in last.watch_events.set) <=>
                    \E c \in last.apply.applied :
                        /\ c.kind = "Write"
                        /\ c.path = w.node[2]
                        /\ CanRead(w.conn.dom_id, store[c.path].permissions))

\* an applied changeset fired the watch of an unprivileged domain
C10_Witness ==
    /\ last.apply.some
    /\ \E w \in last.watch_events.set : w.conn.dom_id # DOM0_DOMAIN_ID

----------------------------------------------------------------------------
(* write, mkdir and rm on their own: one call on a store built by earlier  *)
(* requests, under the root changeset or the changeset of a transaction    *)

\* the paths of the requests, and a chain /a, /a/a, .. of missing nodes
OpPaths == Paths \cup { [i \in 1..k |-> "a"] : k \in 1..MaxDepth }

\* a permission list that lets domain 1 read and write what Dom0 owns
Shared == <<Permission(DOM0_DOMAIN_ID, PERM_NONE), Permission(1, PERM_BOTH)>>

\* the requests that build the store: [fn, dom_id, path, arg]
StoreOp(fn, dom_id, path, arg) ==
    [fn |-> fn, dom_id |-> dom_id, path |-> path, arg |-> arg]

OpMenu ==
    << StoreOp("set_perms", DOM0_DOMAIN_ID, Root, Shared),
      StoreOp("set_perms", DOM0_DOMAIN_ID, <<"tool">>, Shared),
      StoreOp("set_perms", DOM0_DOMAIN_ID, Root, <<Permission(1, PERM_NONE)>>),
      StoreOp("write", DOM0_DOMAIN_ID, <<"a", DotDot>>, "v"),
      StoreOp("write", DOM0_DOMAIN_ID, <<"a">>, "v"),
      StoreOp("write", 1, <<"a", "a">>, "v"),
      StoreOp("rm", DOM0_DOMAIN_ID, <<"tool">>, "") >>

\* the store function a request ends in
StoreCall(op, st, cs) ==
    CASE op.fn = "set_perms" -> set_perms(st, cs, op.dom_id, op.path, op.arg)
      [] op.fn = "write" -> write(st, cs, op.dom_id, op.path, op.arg)
      [] op.fn = "mkdir" -> mkdir(st, cs, op.dom_id, op.path)
      [] op.fn = "rm" -> rm(st, cs, op.dom_id, op.path)

\* a request under the root transaction: a fresh changeset, applied at once
RootOp(s, op) ==
    LET applied(r) ==
            IF r.ok THEN [st |-> ApplyStore(s.st, r.val), gen |-> s.gen + 1]
            ELSE s
    IN applied(StoreCall(op, s.st, ChangeSetNew(s.gen)))

RECURSIVE RunOps(_, _)
RunOps(s, ops) ==
    IF ops = <<>> THEN s ELSE RunOps(RootOp(s, OpMenu[Head(ops)]), Tail(ops))

\* the stores at most MaxOps requests lead to
OpStores ==
    { RunOps([st |-> StoreNew, gen |-> 0], ops) :
        ops \in UNION { [1..k -> DOMAIN OpMenu] : k \in 0..MaxOps } }

\* the changesets a call can be made under: the empty one of the root
\* transaction, or the one a transaction holds after one request
OpChangeSets(s) ==
    LET held(r) == IF r.ok THEN r.val ELSE ChangeSetNew(s.gen)
    IN { ChangeSetNew(s.gen) }
           \cup { held(StoreCall(OpMenu[i], s.st, ChangeSetNew(s.gen))) :
                    i \in DOMAIN OpMenu }

OpCall(fn, s, cs, dom_id, path, value) ==
    [fn |-> fn, done |-> FALSE, st |-> s.st, cs |-> cs, dom_id |-> dom_id,
     path |-> path, value |-> value]

OpInit ==
    /\ store = StoreNew
    /\ generation = 0
    /\ txns = EmptyMap
    /\ watches = {}
    /\ last = Response(NoRequest, Egress("NONE", NoRequest.md, ""), None,
                       NotApplied(StoreNew, 0))
    /\ panicked = FALSE
    /\ ServerNew
    /\ \E s \in OpStores, fn \in { "write", "mkdir", "rm" },
          conn \in Conns, path \in OpPaths, value \in Values :
          \E cs \in OpChangeSets(s) :
             call = OpCall(fn, s, cs, conn.dom_id, path, value)

Returned(result) ==
    [fn |-> call.fn, done |-> TRUE, st |-> call.st, cs |-> call.cs,
     dom_id |-> call.dom_id, path |-> call.path, value |-> call.value,
     result |-> result]

CallWrite ==
    /\ call.fn = "write"
    /\ ~call.done
    /\ call' = Returned(write(call.st, call.cs, call.dom_id, call.path, call.value))
    /\ UNCHANGED <<store, generation, txns, watches, last, panicked, server>>

CallMkdir ==
    /\ call.fn = "mkdir"
    /\ ~call.done
    /\ call' = Returned(mkdir(call.st, call.cs, call.dom_id, call.path))
    /\ UNCHANGED <<store, generation, txns, watches, last, panicked, server>>

CallRm ==
    /\ call.fn = "rm"
    /\ ~call.done
    /\ call' = Returned(rm(call.st, call.cs, call.dom_id, call.path))
    /\ UNCHANGED <<store, generation, txns, watches, last, panicked, server>>

OpNext == CallWrite \/ CallMkdir \/ CallRm

OpSpec == OpInit /\ [][OpNext]_vars

----------------------------------------------------------------------------
(* server.rs: the slab of connections, each with its State and its         *)
(* TransmissionQueue, driven by the readiness events and the channel       *)
(* messages the event loop hands to Handler::ready and Handler::notify.    *)
(* The event loop itself is the environment: it may report any registered  *)
(* connection ready, and it delivers the channel's messages oldest first,  *)
(* each at some later turn of the loop.                                    *)

SlabTokens == 1..MaxSlots

\* the watch field of a buffer that carries no watch event
NoWatch == Watch(NoRequest.md.conn, WIntroduceDomain, WIntroduceDomain)

\* the connection that lives in slot token since it was accepted as the
\* born-th socket
Incarnation(token, born) == [token |-> token, born |-> born]

\* one Buffer of a TransmissionQueue: the header or the body of an egress
\* message.  cause is the id of the request that made the message, gen the
\* store generation it was made at, origin the connection that request came
\* from and owner the connection the message was made for.
Buffer(part, msg, w, cause, gen, origin, owner) ==
    [part |-> part, msg_type |-> msg.msg_type, md |-> msg.md, watch |-> w,
     cause |-> cause, gen |-> gen, origin |-> origin, owner |-> owner]

\* Egress::encode: the header buffer and the body buffer of a message
encode(msg, w, cause, gen, origin, owner) ==
    << Buffer("hdr", msg, w, cause, gen, origin, owner),
       Buffer("body", msg, w, cause, gen, origin, owner) >>

\* egress::WatchEvent::new
WatchEvent(w) ==
    Egress("XS_WATCH_EVENT", Metadata(w.conn, 0, ROOT_TRANSACTION), "")

\* Connection::new; sent (the buffers written to the socket) and reqs (the
\* ids of the requests read) keep the history of the connection
ConnectionNew(token, born) ==
    [conn |-> ConnId(token, DOM0_DOMAIN_ID), state |-> "AwaitingHeader",
     tx_q |-> <<>>, born |-> born, sent |-> <<>>, reqs |-> <<>>,
     failed |-> FALSE]

\* Connection::enqueue putting the buffers in front of the queue
conn_enqueue_front(c, bufs) ==
    [c EXCEPT !.tx_q = bufs \o @,
              !.state = IF @ = "AwaitingHeader" THEN "Write" ELSE @]

\* Connection::enqueue, up to its reregister
conn_enqueue(c, bufs) ==
    [c EXCEPT !.tx_q = @ \o bufs,
              !.state = IF @ = "AwaitingHeader" THEN "Write" ELSE @]

\* Connection::write taking the buffer at the back of the queue
conn_write_pops_back(c) ==
    [c EXCEPT !.tx_q = SubSeq(@, 1, Len(@) - 1),
              !.sent = Append(@, c.tx_q[Len(c.tx_q)]),
              !.state = IF Len(c.tx_q) = 1 THEN "AwaitingHeader" ELSE @]

\* Connection::write when write_bytes sent the whole buffer
conn_write(c) ==
    [c EXCEPT !.tx_q = Tail(@),
              !.sent = Append(@, Head(c.tx_q)),
              !.state = IF Tail(c.tx_q) = <<>> THEN "AwaitingHeader" ELSE @]

\* the message read() sends on the channel: the watches that fired, with
\* the request and generation they fired for, the connection the request
\* came from and the connections living in the slab at that moment
Message(watch_events, cause, gen, origin) ==
    [watch_events |-> watch_events, cause |-> cause, gen |-> gen,
     origin |-> origin,
     owners |-> [t \in DOMAIN conns |-> Incarnation(t, conns[t].born)]]

\* Slab::remove
SlabRemove(slab, token) == [t \in (DOMAIN slab) \ {token} |-> slab[t]]

\* what Connection::close takes from the watch list and the registry
Removed(closed) ==
    [watches |-> { w \in watches : w.conn \in closed },
     txns |-> { id \in DOMAIN txns : txns[id].conn \in closed }]

\* Connection::close on every connection of closed
watch_reset_all(ws, closed) ==
    { w \in ws : \A c \in closed : w \in watch_reset(ws, c) }

txn_reset_all(list, closed) ==
    [id \in { i \in DOMAIN list :
                \A c \in closed : i \in DOMAIN txn_reset(list, c) } |-> list[id]]

\* Connection::close followed by the removal from the slab in Handler::ready
CloseAndRemove(token) ==
    /\ conns' = SlabRemove(conns, token)
    /\ watches' = watch_reset(watches, conns[token].conn)
    /\ txns' = txn_reset(txns, conns[token].conn)
    /\ lastclose' = Removed({ conns[token].conn })

\* no handler is between its work and its close
Quiet == \A t \in DOMAIN conns : ~conns[t].failed

\* the event loop is running and calls a handler
Turn == running /\ ~panicked /\ Quiet

\* Server::accept: the socket goes into a vacant slot and is registered; a
\* failing register closes the connection, which stays in the slab.  With
\* no vacant slot the socket is dropped.
Accept(token, registered) ==
    /\ Turn
    /\ accepted < MaxAccepts
    /\ token \notin DOMAIN conns
    /\ accepted' = accepted + 1
    /\ LET c == ConnectionNew(token, accepted + 1)
       IN IF registered
          THEN /\ conns' = [t \in (DOMAIN conns) \cup {token} |->
                              IF t = token THEN c ELSE conns[t]]
               /\ UNCHANGED <<watches, txns, lastclose>>
          ELSE /\ conns' = [t \in (DOMAIN conns) \cup {token} |->
                              IF t = token THEN [c EXCEPT !.state = "Closed"]
                              ELSE conns[t]]
               /\ watches' = watch_reset(watches, c.conn)
               /\ txns' = txn_reset(txns, c.conn)
               /\ lastclose' = Removed({ c.conn })
    /\ UNCHANGED <<store, generation, last, panicked, call, channel, running>>

\* Server::accept when accept() fails: Server::close shuts the loop down
AcceptError ==
    /\ Turn
    /\ running' = FALSE
    /\ UNCHANGED <<store, generation, txns, watches, last, panicked, call,
                   conns, channel, accepted, lastclose>>

\* Connection::ready with an error or hup event, or whose read or write
\* returns Err (read_header on EOF): close, and Handler::ready removes it
Hangup(token) ==
    /\ Turn
    /\ token \in DOMAIN conns
    /\ conns[token].state # "Closed"
    /\ CloseAndRemove(token)
    /\ UNCHANGED <<store, generation, last, panicked, call, channel, running,
                   accepted>>

\* Connection::ready in AwaitingHeader when read_header has the header;
\* rearmed is the outcome of the reregister that follows
ReadHeader(token, rearmed) ==
    /\ Turn
    /\ token \in DOMAIN conns
    /\ conns[token].state = "AwaitingHeader"
    /\ IF rearmed
       THEN /\ conns' = [conns EXCEPT ![token].state = "AwaitingBody"]
            /\ UNCHANGED <<watches, txns, lastclose>>
       ELSE CloseAndRemove(token)
    /\ UNCHANGED <<store, generation, last, panicked, call, channel, running,
                   accepted>>

\* a connection whose body is complete: ingress::parse(..).process(system)
\* runs next
CanProcess(token) ==
    /\ Turn
    /\ CanDispatch
    /\ token \in DOMAIN conns
    /\ conns[token].state = "AwaitingBody"

\* the rest of Connection::read after process() returned the Response in
\* last': the state becomes Write, the reply is enqueued and the watch
\* events are sent on the channel.  A failing reregister leaves the close
\* to FinishClose.
Served(token, rearmed) ==
    LET c == conns[token]
        me == Incarnation(token, c.born)
        req_id == last'.req.md.req_id
        reply == encode(last'.msg, NoWatch, req_id, generation', me, me)
    IN /\ conns' =
             IF panicked' THEN conns
             ELSE [conns EXCEPT ![token] =
                      conn_enqueue([c EXCEPT !.state = "Write",
                                             !.reqs = Append(@, req_id),
                                             !.failed = ~rearmed],
                                   reply)]
       /\ channel' =
             IF ~panicked' /\ last'.watch_events.some
             THEN Append(channel, Message(last'.watch_events.set, req_id,
                                          generation', me))
             ELSE channel
       /\ UNCHANGED <<call, running, accepted, lastclose>>

\* the close of a connection whose reregister failed after a request
FinishClose(token) ==
    /\ running
    /\ ~panicked
    /\ token \in DOMAIN conns
    /\ conns[token].failed
    /\ CloseAndRemove(token)
    /\ UNCHANGED <<store, generation, last, panicked, call, channel, running,
                   accepted>>

\* Connection::ready in Write when write_bytes sent the buffer at the front
Write(token, rearmed) ==
    /\ Turn
    /\ token \in DOMAIN conns
    /\ conns[token].state = "Write"
    /\ IF conns[token].tx_q = <<>>
       THEN /\ panicked' = TRUE
            /\ UNCHANGED <<conns, watches, txns, lastclose>>
       ELSE /\ UNCHANGED panicked
            /\ IF rearmed
               THEN /\ conns' = [conns EXCEPT ![token] = conn_write(@)]
                    /\ UNCHANGED <<watches, txns, lastclose>>
               ELSE CloseAndRemove(token)
    /\ UNCHANGED <<store, generation, last, call, channel, running, accepted>>

\* the orders in which drain() can yield the watches of a message
Orders(ws) ==
    { o \in [1..Cardinality(ws) -> ws] :
        \A i, j \in 1..Cardinality(ws) : i # j => o[i] # o[j] }

\* the loop of Handler::notify over the watches in order: each one is
\* enqueued on the connection in the slot of its token; a vacant slot makes
\* find_conn_by_token panic; a connection of bad fails the reregister of
\* enqueue and is closed, staying in the slab
RECURSIVE Deliver(_, _, _, _)
Deliver(slab, order, msg, bad) ==
    LET event(w) ==
            encode(WatchEvent(w), w, msg.cause, msg.gen, msg.origin,
                   msg.owners[w.conn.token])
        closes(c) == c.state = "AwaitingHeader" /\ c.conn.token \in bad
        after(c, w) ==
            IF closes(c)
            THEN [conn_enqueue(c, event(w)) EXCEPT !.state = "Closed"]
            ELSE conn_enqueue(c, event(w))
        more(c, rest) ==
            IF closes(c) THEN [rest EXCEPT !.closed = @ \cup { c.conn }]
            ELSE rest
        step(w, t) ==
            IF t \notin DOMAIN slab
            THEN [conns |-> slab, ok |-> FALSE, closed |-> {}]
            ELSE more(slab[t],
                      Deliver([slab EXCEPT ![t] = after(@, w)], Tail(order),
                              msg, bad))
    IN IF order = <<>> THEN [conns |-> slab, ok |-> TRUE, closed |-> {}]
       ELSE step(Head(order), Head(order).conn.token)

\* Handler::notify for the oldest message of the channel
Notify ==
    /\ Turn
    /\ channel # <<>>
    /\ channel' = Tail(channel)
    /\ \E order \in Orders(Head(channel).watch_events) :
         \E bad \in SUBSET { t \in DOMAIN conns :
                               /\ conns[t].state = "AwaitingHeader"
                               /\ \E w \in Head(channel).watch_events :
                                     w.conn.token = t } :
            LET delivered(r) ==
                    IF ~r.ok
                    THEN /\ panicked' = TRUE
                         /\ UNCHANGED <<conns, watches, txns, lastclose>>
                    ELSE /\ conns' = r.conns
                         /\ watches' = watch_reset_all(watches, r.closed)
                         /\ txns' = txn_reset_all(txns, r.closed)
                         /\ lastclose' = IF r.closed = {} THEN lastclose
                                         ELSE Removed(r.closed)
                         /\ UNCHANGED panicked
            IN delivered(Deliver(conns, order, Head(channel), bad))
    /\ UNCHANGED <<store, generation, last, call, running, accepted>>

\* one call of Handler::ready or Handler::notify.  The requests the
\* clients send are a watch on /tool, a write of /tool under the root or a
\* transaction, a transaction start and a transaction end.
ServerNext ==
    \/ \E token \in SlabTokens, registered \in BOOLEAN : Accept(token, registered)
    \/ AcceptError
    \/ \E token \in SlabTokens : Hangup(token)
    \/ \E token \in SlabTokens, rearmed \in BOOLEAN : ReadHeader(token, rearmed)
    \/ \E token \in SlabTokens, rearmed \in BOOLEAN :
          /\ CanProcess(token)
          /\ \E token_ \in Tokens :
                ProcessWatch(conns[token].conn, ROOT_TRANSACTION,
                             WNormal(<<"tool">>), token_)
          /\ Served(token, rearmed)
    \/ \E token \in SlabTokens, rearmed \in BOOLEAN :
          /\ CanProcess(token)
          /\ \E tx_id \in TxIds, value \in Values :
                ProcessWrite(conns[token].conn, tx_id, <<"tool">>, value)
          /\ Served(token, rearmed)
    \/ \E token \in SlabTokens, rearmed \in BOOLEAN :
          /\ CanProcess(token)
          /\ ProcessTransactionStart(conns[token].conn, ROOT_TRANSACTION)
          /\ Served(token, rearmed)
    \/ \E token \in SlabTokens, rearmed \in BOOLEAN :
          /\ CanProcess(token)
          /\ \E tx_id \in TxIds :
                \E value \in StatusesOf(conns[token].conn, tx_id) :
                   ProcessTransactionEnd(conns[token].conn, tx_id, value)
          /\ Served(token, rearmed)
    \/ \E token \in SlabTokens : FinishClose(token)
    \/ \E token \in SlabTokens, rearmed \in BOOLEAN : Write(token, rearmed)
    \/ Notify

ServerSpec == Init /\ [][ServerNext]_vars

----------------------------------------------------------------------------
(* What a connection is sent: the buffers written so far, then the ones    *)
(* still queued                                                            *)

Stream(c) == c.sent \o c.tx_q

IsEvent(b) == b.msg_type = "XS_WATCH_EVENT"
IsReply(b) == b.msg_type # "XS_WATCH_EVENT"
IsReplyHeader(b) == IsReply(b) /\ b.part = "hdr"

Living(token) == Incarnation(token, conns[token].born)

\* C11: on the connection a request R came from, the watch events for the
\* changes R caused are enqueued after the reply to R and before the reply
\* to any later request of that connection.
C11_EventsBetweenReplies ==
    \A t \in DOMAIN conns :
       LET s == Stream(conns[t])
       IN \A i \in DOMAIN s :
             (IsEvent(s[i]) /\ s[i].origin = Living(t) /\ s[i].owner = Living(t))
                => /\ \E j \in 1..(i - 1) :
                         IsReply(s[j]) /\ s[j].cause = s[i].cause
                   /\ \A j \in 1..(i - 1) :
                         IsReply(s[j]) => s[j].cause <= s[i].cause

\* the ids of the requests whose replies are in the stream s, in its order
RECURSIVE ReplyIds(_)
ReplyIds(s) ==
    IF s = <<>> THEN <<>>
    ELSE IF IsReplyHeader(Head(s)) THEN <<Head(s).cause>> \o ReplyIds(Tail(s))
    ELSE ReplyIds(Tail(s))

\* C12: the replies of a connection are sent in the order its requests
\* were received: when the connection turns to its next request the reply to
\* the current one is queued, and the queue is transmitted first in, first
\* out, so that every message goes out whole, header then body.
C12_RepliesInRequestOrder ==
    \A t \in DOMAIN conns :
       LET s == Stream(conns[t])
       IN /\ ReplyIds(s) = conns[t].reqs
          /\ \A i \in DOMAIN s :
                IF i % 2 = 1
                THEN s[i].part = "hdr" /\ i < Len(s)
                ELSE s[i] = [s[i - 1] EXCEPT !.part = "body"]

\* a connection has been sent the replies to two requests
C12_Witness ==
    \E t \in DOMAIN conns :
       /\ Len(ReplyIds(conns[t].sent)) >= 2
       /\ Len(conns[t].reqs) >= 2

\* C13: a watcher connection receives its watch events in the order in which
\* the changesets were applied to the store, that is by store generation,
\* whichever connections caused the changes.
C13_EventsInGenerationOrder ==
    \A t \in DOMAIN conns :
       LET s == Stream(conns[t])
       IN \A i, j \in DOMAIN s :
             (i < j /\ IsEvent(s[i]) /\ IsEvent(s[j])) => s[i].gen <= s[j].gen

\* a watcher has been sent the events of two changes made by two different
\* connections
C13_Witness ==
    \E t \in DOMAIN conns :
       LET s == conns[t].sent
       IN \E i, j \in DOMAIN s :
             /\ i < j
             /\ IsEvent(s[i])
             /\ IsEvent(s[j])
             /\ s[i].gen < s[j].gen
             /\ s[i].origin # s[j].origin

\* the connection in slot token enters Closed in this step
EntersClosed(token) ==
    \/ /\ token \in DOMAIN conns
       /\ conns[token].state # "Closed"
       /\ token \in DOMAIN conns' => conns'[token].state = "Closed"
    \/ /\ token \notin DOMAIN conns
       /\ token \in DOMAIN conns'
       /\ conns'[token].state = "Closed"

\* C14: whenever a connection enters Closed, every watch and every
\* transaction it owns is removed, and the watches and transactions of the
\* connections that do not close are left in place.
C14_CloseRemovesOwned ==
    [][LET closing == { ConnId(t, DOM0_DOMAIN_ID) :
                          t \in { u \in SlabTokens : EntersClosed(u) } }
       IN closing # {} =>
            /\ \A w \in watches' : w.conn \notin closing
            /\ \A id \in DOMAIN txns' : txns'[id].conn \notin closing
            /\ \A w \in watches : w.conn \notin closing => w \in watches'
            /\ \A id \in DOMAIN txns :
                  txns[id].conn \notin closing
                     => id \in DOMAIN txns' /\ txns'[id] = txns[id]]_vars

\* a close has removed a watch and a transaction while another connection
\* keeps a watch or a transaction of its own
C14_Witness ==
    /\ lastclose.watches # {}
    /\ lastclose.txns # {}
    /\ \/ \E w \in watches : w.conn.token \in DOMAIN conns
       \/ \E id \in DOMAIN txns : txns[id].conn.token \in DOMAIN conns

\* C15: a connection accepted into the slot of a closed connection is never
\* handed a watch event made for the watches of the earlier connection, and
\* no transaction of the earlier connection is left for it to reach.
C15_NoStaleStateAfterReuse ==
    /\ \A t \in DOMAIN conns :
          \A i \in DOMAIN Stream(conns[t]) :
             IsEvent(Stream(conns[t])[i])
                => Stream(conns[t])[i].owner = Living(t)
    /\ \A id \in DOMAIN txns : txns[id].conn.token \in DOMAIN conns

----------------------------------------------------------------------------
\* the decision on a request of mode by dom against the list perms: Dom0
\* and the owner (the domain of the first entry) get everything, a domain
\* with an entry of its own gets what that entry holds, any other domain
\* gets what the first entry holds
Permitted(dom, perms, mode) ==
    LET own == { i \in 1..Len(perms) : perms[i].id = dom }
        first == CHOOSE i \in own : \A j \in own : i <= j
    IN IF dom = 0 \/ perms[1].id = dom THEN TRUE
       ELSE IF own # {} THEN mode \subseteq perms[first].perm
       ELSE mode \subseteq perms[1].perm

\* C16: perms_ok(dom, perms, mode) permits every mode when dom is 0 or the
\* domain of perms[0]; otherwise, when perms has an entry for dom, it permits
\* exactly the modes contained in that entry's mode; otherwise exactly the
\* modes contained in the mode of perms[0].
C16_PermsOkDecides ==
    (call.fn = "perms_ok" /\ call.done)
        => (call.result <=> Permitted(call.dom_id, call.permissions, call.perm))

\* a domain that is neither Dom0 nor the owner is let through by its own
\* entry although the first entry would refuse it
C16_Witness ==
    /\ call.fn = "perms_ok"
    /\ call.done
    /\ call.dom_id # 0
    /\ call.permissions[1].id # call.dom_id
    /\ \E i \in 1..Len(call.permissions) : call.permissions[i].id = call.dom_id
    /\ ~(call.perm \subseteq call.permissions[1].perm)
    /\ call.result

----------------------------------------------------------------------------
(* The view of a caller: what a lookup finds, whoever asks *)

Lookup(st, cs, p) == get_node(st, cs, DOM0_DOMAIN_ID, p, PERM_NONE)

\* the view before the finished call and the view its changeset gives
Before(p) == Lookup(call.st, call.cs, p)
After(p) == Lookup(call.st, call.result.val, p)

\* every path the store, the changesets or the requests name
KnownPaths ==
    OpPaths \cup DOMAIN call.st \cup DOMAIN call.cs.changes
        \cup (IF call.done /\ call.result.ok
               THEN DOMAIN call.result.val.changes ELSE {})

Prefix(p, k) == SubSeq(p, 1, k)

\* the length of the nearest existing ancestor of the missing path p
NearestLen(p) ==
    CHOOSE k \in 0..(Len(p) - 1) :
        /\ Before(Prefix(p, k)).ok
        /\ \A j \in (k + 1)..(Len(p) - 1) : ~Before(Prefix(p, j)).ok

HasNearest(p) == \E k \in 0..(Len(p) - 1) : Before(Prefix(p, k)).ok

Writable(dom, perms) == Permitted(dom, perms, PERM_WRITE)

Creates == call.fn \in { "write", "mkdir" } /\ call.done

C18_WriteDeniedIsEACCES ==
    LET p == call.path
        denied(node) == node.ok /\ ~Writable(call.dom_id, node.val.permissions)
    IN (/\ Creates
        /\ \/ denied(Before(p))
           \/ /\ ~Before(p).ok
              /\ HasNearest(p)
              /\ denied(Before(Prefix(p, NearestLen(p)))))
         => call.result = Err("EACCES")

\* a missing target below an ancestor the caller may not write
C18_Witness ==
    /\ Creates
    /\ ~Before(call.path).ok
    /\ HasNearest(call.path)
    /\ ~Writable(call.dom_id,
                 Before(Prefix(call.path, NearestLen(call.path))).val.permissions)
    /\ call.result = Err("EACCES")

Removes == call.fn = "rm" /\ call.done

\* C19: after rm(p) succeeds, p and every descendant of p are ENOENT in the
\* resulting view, basename(p) is not in the children of p's parent, and
\* every node outside the removed subtree other than that parent is
\* unchanged.
C19_RmRemovesSubtree ==
    (Removes /\ call.result.ok) =>
        /\ \A q \in KnownPaths : is_child(q, call.path) => ~After(q).ok
        /\ After(parent(call.path)).ok =>
              basename(call.path) \notin After(parent(call.path)).val.children
        /\ \A q \in KnownPaths :
              (~is_child(q, call.path) /\ q # parent(call.path))
                 => After(q) = Before(q)

\* C20: rm fails with EINVAL on the root, with ENOENT when the path does not
\* exist, and with EACCES when the caller may not write the parent or a node
\* of the subtree; a path that is missing below a parent the caller may not
\* write gets either of the two errors.  A failing rm returns no changeset.
C20_RmErrors ==
    LET p == call.path
        denied(node) == node.ok /\ ~Writable(call.dom_id, node.val.permissions)
        subtree == { q \in KnownPaths : is_child(q, p) }
        refused == \/ denied(Before(parent(p)))
                   \/ \E q \in subtree : denied(Before(q))
    IN Removes =>
         /\ p = Root => call.result = Err("EINVAL")
         /\ (p # Root /\ ~Before(p).ok /\ ~refused)
               => call.result = Err("ENOENT")
         /\ (p # Root /\ ~Before(p).ok /\ refused)
               => call.result \in { Err("ENOENT"), Err("EACCES") }
         /\ (p # Root /\ Before(p).ok /\ refused)
               => call.result = Err("EACCES")
         /\ ~call.result.ok
               => call.result.err \in { "EINVAL", "ENOENT", "EACCES" }

\* ------------------------------------------------------------------
\* The root node

\* C21: the root node exists in every reachable state of the store and its
\* owner, the domain of the first entry of its permission list, is Dom0.
C21_RootOwnedByDom0 ==
    /\ Root \in DOMAIN store
    /\ Len(store[Root].permissions) >= 1
    /\ store[Root].permissions[1].id = DOM0_DOMAIN_ID

----------------------------------------------------------------------------
(* Sequences of store calls made in one view: write then read, mkdir then  *)
(* mkdir, get_perms then set_perms then get_perms.  The view is the store  *)
(* with the changeset of the caller; between two calls the changeset may   *)
(* be applied to the store, as the root transaction does after each call.  *)

\* a permission list that lets domain 1 write, but not read, what Dom0 owns
WriteOnly == <<Permission(DOM0_DOMAIN_ID, PERM_NONE), Permission(1, PERM_WRITE)>>

\* a permission list that lets domain 1 read, but not write, what Dom0 owns
ReadOnly == <<Permission(DOM0_DOMAIN_ID, PERM_NONE), Permission(1, PERM_READ)>>

RelValues == { "v", "w" }

RelPerms == { Shared, WriteOnly, ReadOnly, <<Permission(1, PERM_NONE)>> }

\* the requests that build the store of the sequences
RelMenu ==
    << StoreOp("set_perms", DOM0_DOMAIN_ID, Root, Shared),
      StoreOp("set_perms", DOM0_DOMAIN_ID, <<"tool">>, WriteOnly),
      StoreOp("set_perms", DOM0_DOMAIN_ID, <<"tool">>, ReadOnly),
      StoreOp("write", DOM0_DOMAIN_ID, <<"a">>, "v"),
      StoreOp("rm", DOM0_DOMAIN_ID, <<"tool">>, "") >>

RECURSIVE RunRel(_, _)
RunRel(s, ops) ==
    IF ops = <<>> THEN s ELSE RunRel(RootOp(s, RelMenu[Head(ops)]), Tail(ops))

\* the stores at most MaxOps requests lead to
RelStores ==
    { RunRel([st |-> StoreNew, gen |-> 0], ops) :
        ops \in UNION { [1..k -> DOMAIN RelMenu] : k \in 0..MaxOps } }

\* the changesets the first call can be made under
RelChangeSets(s) ==
    LET held(r) == IF r.ok THEN r.val ELSE ChangeSetNew(s.gen)
    IN { ChangeSetNew(s.gen) }
           \cup { held(StoreCall(RelMenu[i], s.st, ChangeSetNew(s.gen))) :
                    i \in DOMAIN RelMenu }

\* no call made yet
NoResult == Err("NONE")

\* a sequence of calls: the view (st, gen, cs) the next call is made in, the
\* view (pst, pcs) the latest call was made in, the view (st0, cs0) the
\* first call was made in, and the results so far
RelCall(fn, s, cs, dom_id, path, value, perms) ==
    [fn |-> fn, step |-> 0, st |-> s.st, gen |-> s.gen, cs |-> cs,
     pst |-> s.st, pcs |-> cs, st0 |-> s.st, cs0 |-> cs, applied |-> FALSE,
     dom_id |-> dom_id, path |-> path, value |-> value, perms |-> perms,
     r1 |-> NoResult, r2 |-> NoResult, r3 |-> NoResult]

RelInit ==
    /\ store = StoreNew
    /\ generation = 0
    /\ txns = EmptyMap
    /\ watches = {}
    /\ last = Response(NoRequest, Egress("NONE", NoRequest.md, ""), None,
                       NotApplied(StoreNew, 0))
    /\ panicked = FALSE
    /\ ServerNew
    /\ \E s \in RelStores, conn \in Conns, path \in OpPaths :
          \E cs \in RelChangeSets(s) :
             \/ \E value \in RelValues :
                   call = RelCall("write_read", s, cs, conn.dom_id, path,
                                  value, <<>>)
             \/ call = RelCall("mkdir_mkdir", s, cs, conn.dom_id, path, "", <<>>)
             \/ \E perms \in RelPerms :
                   call = RelCall("perms", s, cs, conn.dom_id, path, "", perms)

\* Store::write, the first call of its sequence
RelWrite ==
    LET returned(r) ==
            [call EXCEPT !.step = 1, !.r1 = r, !.pst = call.st,
                         !.pcs = call.cs, !.cs = IF r.ok THEN r.val ELSE @]
    IN /\ call.fn = "write_read"
       /\ call.step = 0
       /\ call' = returned(write(call.st, call.cs, call.dom_id, call.path,
                                 call.value))
       /\ UNCHANGED <<store, generation, txns, watches, last, panicked, server>>

\* Store::read, the second call of its sequence
RelRead ==
    LET returned(r) ==
            [call EXCEPT !.step = 2, !.r2 = r, !.pst = call.st, !.pcs = call.cs]
    IN /\ call.fn = "write_read"
       /\ call.step = 1
       /\ call' = returned(read(call.st, call.cs, call.dom_id, call.path))
       /\ UNCHANGED <<store, generation, txns, watches, last, panicked, server>>

\* Store::mkdir, the first and the second call of its sequence
RelMkdir ==
    LET returned(r) ==
            [call EXCEPT !.step = @ + 1,
                         !.r1 = IF call.step = 0 THEN r ELSE @,
                         !.r2 = IF call.step = 1 THEN r ELSE @,
                         !.pst = call.st, !.pcs = call.cs,
                         !.cs = IF r.ok THEN r.val ELSE @]
    IN /\ call.fn = "mkdir_mkdir"
       /\ call.step \in { 0, 1 }
       /\ call' = returned(mkdir(call.st, call.cs, call.dom_id, call.path))
       /\ UNCHANGED <<store, generation, txns, watches, last, panicked, server>>

\* Store::get_perms, the first and the third call of its sequence
RelGetPerms ==
    LET returned(r) ==
            [call EXCEPT !.step = @ + 1,
                         !.r1 = IF call.step = 0 THEN r ELSE @,
                         !.r3 = IF call.step = 2 THEN r ELSE @,
                         !.pst = call.st, !.pcs = call.cs]
    IN /\ call.fn = "perms"
       /\ call.step \in { 0, 2 }
       /\ call' = returned(get_perms(call.st, call.cs, call.dom_id, call.path))
       /\ UNCHANGED <<store, generation, txns, watches, last, panicked, server>>

\* Store::set_perms, the second call of its sequence
RelSetPerms ==
    LET returned(r) ==
            [call EXCEPT !.step = 2, !.r2 = r, !.pst = call.st,
                         !.pcs = call.cs, !.cs = IF r.ok THEN r.val ELSE @]
    IN /\ call.fn = "perms"
       /\ call.step = 1
       /\ call' = returned(set_perms(call.st, call.cs, call.dom_id, call.path,
                                     call.perms))
       /\ UNCHANGED <<store, generation, txns, watches, last, panicked, server>>

\* Store::apply of the caller's changeset once the mutating call of the
\* sequence has succeeded; the caller goes on under a new changeset
RelApply ==
    LET returned(a) ==
            [call EXCEPT !.applied = TRUE, !.st = a.store,
                         !.gen = a.generation,
                         !.cs = ChangeSetNew(a.generation)]
        mutated == IF call.fn = "perms" THEN call.step = 2 /\ call.r2.ok
                   ELSE call.step = 1 /\ call.r1.ok
    IN /\ mutated
       /\ ~call.applied
       /\ call' = returned(apply(call.st, call.gen, call.cs))
       /\ UNCHANGED <<store, generation, txns, watches, last, panicked, server>>

RelNext ==
    RelWrite \/ RelRead \/ RelMkdir \/ RelGetPerms \/ RelSetPerms \/ RelApply

RelSpec == RelInit /\ [][RelNext]_vars

\* what a lookup finds in the view the next call of the sequence is made in
InView(p) == Lookup(call.st, call.cs, p)

\* what a lookup found in the view the latest call was made in
InPrevious(p) == Lookup(call.pst, call.pcs, p)

\* what a lookup found in the view the first call was made in
AtFirst(p) == Lookup(call.st0, call.cs0, p)

WroteThenRead == call.fn = "write_read" /\ call.step = 2 /\ call.r1.ok

\* C22 as stated: after write(p, v) succeeds in a view, read(p) in the same
\* view returns v, whether or not the change has been applied to the store.
C22_ReadYourWrites ==
    WroteThenRead => call.r2 = Ok(call.value)

\* C22: after write(p, v) succeeds in a view, read(p) in the same view by a
\* caller the permission list of p lets read returns v, whether or not the
\* change has been applied to the store; a caller the list lets write but not
\* read gets EACCES.
C22_ReadYourWritesIfReadable ==
    WroteThenRead =>
        /\ InView(call.path).ok
        /\ InView(call.path).val.value = call.value
        /\ call.r2 = IF Permitted(call.dom_id,
                                  InView(call.path).val.permissions, PERM_READ)
                     THEN Ok(call.value)
                     ELSE Err("EACCES")

\* a write over another value by domain 1, applied to the store and read back
C22_Witness ==
    /\ WroteThenRead
    /\ call.applied
    /\ call.dom_id # DOM0_DOMAIN_ID
    /\ AtFirst(call.path).ok
    /\ AtFirst(call.path).val.value # call.value
    /\ call.r2 = Ok(call.value)

\* the result of the latest mkdir of the sequence
LatestMkdir == IF call.step = 1 THEN call.r1 ELSE call.r2

MkdirTwice == call.fn = "mkdir_mkdir" /\ call.step = 2 /\ call.r1.ok

\* C23: mkdir(p) on a node that exists and that the caller may write returns
\* the changeset unchanged, so value, children and permissions of p are kept;
\* a second mkdir(p) after a successful one returns its changeset unchanged,
\* and applying the changeset after both gives the store that applying it
\* after the first gives.
C23_MkdirIdempotent ==
    /\ (/\ call.fn = "mkdir_mkdir"
        /\ call.step \in { 1, 2 }
        /\ InPrevious(call.path).ok
        /\ Writable(call.dom_id, InPrevious(call.path).val.permissions))
          => /\ LatestMkdir = Ok(call.pcs)
             /\ InView(call.path) = InPrevious(call.path)
    /\ MkdirTwice
          => /\ call.r2 = Ok(call.pcs)
             /\ ApplyStore(call.pst, call.r2.val) = ApplyStore(call.pst, call.pcs)
             /\ \A q \in DOMAIN call.st \cup DOMAIN call.cs.changes \cup OpPaths :
                   InView(q) = InPrevious(q)

\* domain 1 creates a missing node with the first mkdir and repeats it
C23_Witness ==
    /\ MkdirTwice
    /\ call.dom_id # DOM0_DOMAIN_ID
    /\ ~AtFirst(call.path).ok
    /\ InView(call.path).ok
    /\ call.r2 = Ok(call.pcs)

PermsSet == call.fn = "perms" /\ call.step \in { 2, 3 } /\ call.r2.ok

\* C24 as stated: set_perms(p, ps) replaces the permission list of p with
\* ps, leaves value and children of p unchanged, and a following
\* get_perms(p) returns exactly ps.
C24_GetPermsReturnsSet ==
    /\ PermsSet
          => /\ InView(call.path).ok
             /\ InView(call.path).val.permissions = call.perms
             /\ InView(call.path).val.value = AtFirst(call.path).val.value
             /\ InView(call.path).val.children = AtFirst(call.path).val.children
    /\ (PermsSet /\ call.step = 3) => call.r3 = Ok(call.perms)

\* C24: set_perms(p, ps) replaces the permission list of p with ps and
\* leaves value and children of p unchanged; a following get_perms(p) by a
\* caller that ps lets read returns exactly ps, and a caller that ps does not
\* let read gets EACCES.
C24_GetPermsReturnsSetIfReadable ==
    /\ PermsSet
          => /\ InView(call.path).ok
             /\ InView(call.path).val.permissions = call.perms
             /\ InView(call.path).val.value = AtFirst(call.path).val.value
             /\ InView(call.path).val.children = AtFirst(call.path).val.children
    /\ (PermsSet /\ call.step = 3)
          => call.r3 = IF Permitted(call.dom_id, call.perms, PERM_READ)
                       THEN Ok(call.perms)
                       ELSE Err("EACCES")

\* domain 1 replaces a list, the change is applied and get_perms returns the
\* new list, which differs from the one the first get_perms returned
C24_Witness ==
    /\ PermsSet
    /\ call.step = 3
    /\ call.applied
    /\ call.dom_id # DOM0_DOMAIN_ID
    /\ call.r1.ok
    /\ call.r1.val # call.perms
    /\ call.r3 = Ok(call.perms)

----------------------------------------------------------------------------
(* Transaction ids *)

\* C25: the id a TRANSACTION_START returns is never 0 and never the id of a
\* transaction that is live when the request is made; the start adds one
\* transaction under that id and leaves every live transaction as it was,
\* and no live transaction ever has the id 0.
C25_StartReturnsFreshId ==
    [][(Dispatch /\ last'.req.msg_type = "XS_TRANSACTION_START")
       => (/\ last'.msg.msg_type = "XS_TRANSACTION_START"
           /\ last'.msg.payload # ROOT_TRANSACTION
           /\ last'.msg.payload \notin DOMAIN txns
           /\ DOMAIN txns' = DOMAIN txns \cup { last'.msg.payload }
           /\ \A id \in DOMAIN txns : txns'[id] = txns[id]
           /\ ROOT_TRANSACTION \notin DOMAIN txns')]_vars

\* a transaction was started while another one was live
C25_Witness ==
    /\ last.req.msg_type = "XS_TRANSACTION_START"
    /\ last.msg.payload \in DOMAIN txns
    /\ \E id \in DOMAIN txns : id # last.msg.payload

----------------------------------------------------------------------------
(* WATCH and UNWATCH on their own, with two tokens per connection and node *)

WatchTokens == { WNormal(<<"tool">>), WNormal(<<"a">>) }

WatchNext ==
    \/ CanDispatch /\ \E conn \in Conns, node \in WNodes, token \in WatchTokens :
          ProcessWatch(conn, ROOT_TRANSACTION, node, token)
             /\ UNCHANGED others
    \/ CanDispatch /\ \E conn \in Conns, node \in WNodes, token \in WatchTokens :
          ProcessUnwatch(conn, ROOT_TRANSACTION, node, token)
             /\ UNCHANGED others

WatchSpec == Init /\ [][WatchNext]_vars

\* the triple the WATCH or UNWATCH request of the step names
Named == Watch(last'.req.md.conn, last'.req.path, last'.req.arg)

\* C26: a WATCH of a registered (connection, node, token) triple is answered
\* EEXIST and an UNWATCH of a triple that is not registered is answered
\* ENOENT, both leaving the watch set unchanged; a WATCH of a new triple adds
\* it, and an UNWATCH of a registered triple removes that triple alone.
C26_WatchUnwatchErrors ==
    [][/\ (Dispatch /\ last'.req.msg_type = "XS_WATCH")
            => IF Named \in watches
               THEN /\ last'.msg = ErrorMsg(last'.req.md, "EEXIST")
                    /\ watches' = watches
               ELSE /\ last'.msg.msg_type = "XS_WATCH"
                    /\ watches' = watches \cup { Named }
       /\ (Dispatch /\ last'.req.msg_type = "XS_UNWATCH")
            => IF Named \notin watches
               THEN /\ last'.msg = ErrorMsg(last'.req.md, "ENOENT")
                    /\ watches' = watches
               ELSE /\ last'.msg.msg_type = "XS_UNWATCH"
                    /\ watches' = watches \ { Named }]_vars

\* an UNWATCH succeeded and the watch of the same connection on the same
\* node under the other token is still registered
C26_Witness ==
    /\ last.req.msg_type = "XS_UNWATCH"
    /\ last.msg.msg_type = "XS_UNWATCH"
    /\ \E w \in watches :
          /\ w.conn = last.req.md.conn
          /\ w.node = last.req.path
          /\ w.token # last.req.arg

----------------------------------------------------------------------------
(* RM under the root transaction with watches on the removed node, on its  *)
(* parent and on the root                                                  *)

RmNodes == { WNormal(p) : p \in { Root, <<"tool">>, <<"tool", "xenstored">> } }

RemoveNext ==
    \/ CanDispatch /\ \E conn \in Conns, node \in RmNodes, token \in Tokens :
          ProcessWatch(conn, ROOT_TRANSACTION, node, token)
             /\ UNCHANGED others
    \/ CanDispatch /\ \E conn \in Conns, path \in { Root, <<"tool">> } :
          ProcessSetPerms(conn, ROOT_TRANSACTION, path, Shared)
             /\ UNCHANGED others
    \/ CanDispatch /\ \E conn \in Conns, path \in Paths :
          ProcessRemove(conn, ROOT_TRANSACTION, path)
             /\ UNCHANGED others

RemoveSpec == Init /\ [][RemoveNext]_vars

\* the paths the applied changeset removed
RemovedPaths == { c.path : c \in { d \in last.apply.applied : d.kind = "Remove" } }

\* the watches registered on path p
WatchesOn(p) == { w \in watches : w.node = WNormal(p) }

RemoveApplied ==
    /\ last.req.msg_type = "XS_RM"
    /\ last.msg.msg_type = "XS_RM"
    /\ last.apply.called
    /\ last.apply.some

\* C27: a Remove change matches no watch.  When a changeset is applied, no
\* watch registered on a path it removed fires; an applied RM removes the
\* node and rewrites its parent, and the watches that fire are exactly the
\* watches on the parent whose owner may read it.
C27_RemoveFiresNoWatch ==
    /\ (last.apply.called /\ last.apply.some)
          => \A p \in RemovedPaths : WatchesOn(p) \cap last.watch_events.set = {}
    /\ RemoveApplied
          => /\ last.req.path \in RemovedPaths
             /\ parent(last.req.path) \in DOMAIN store
             /\ last.watch_events.set =
                   { w \in WatchesOn(parent(last.req.path)) :
                        CanRead(w.conn.dom_id,
                                store[parent(last.req.path)].permissions) }

\* a node with watches on it and on its parent was removed; the watch on the
\* parent fired
C27_Witness ==
    /\ RemoveApplied
    /\ WatchesOn(last.req.path) # {}
    /\ WatchesOn(parent(last.req.path)) \cap last.watch_events.set # {}

----------------------------------------------------------------------------
(* The wire: a request frame is parsed by ingress::parse, processed, and   *)
(* the reply and the fired watch events are encoded by Egress::encode.     *)
(* A string on the wire is a sequence of atoms: the separator "/", the NUL *)
(* byte, a byte that is not UTF-8, and names, each standing for a run of   *)
(* bytes that holds none of the three.  The length limits of a path        *)
(* (MAX_RELATIVE, MAX_ABSOLUTE) are far above the strings of the model.    *)

Sep == "/"
NUL == "NUL"
BadByte == "0xFF"

\* the decimal names of the domain ids
DomName(dom_id) == ToString(dom_id)

\* get_domain_path
get_domain_path(dom_id) == <<"local", "domain", DomName(dom_id)>>

\* Path::try_from: the checks on the string, then the components of an
\* absolute string, or those of a relative one below the domain's path
try_from(dom_id, s) ==
    IF s = <<>> THEN Err("EINVAL")
    ELSE IF \E i \in 1..(Len(s) - 1) : s[i] = Sep /\ s[i + 1] = Sep
         THEN Err("EINVAL")
    ELSE IF s # <<Sep>> /\ s[Len(s)] = Sep THEN Err("EINVAL")
    ELSE LET components == SelectSeq(s, LAMBDA a : a # Sep)
         IN IF s[1] = Sep THEN Ok(components)
            ELSE Ok(get_domain_path(dom_id) \o components)

\* Path::as_bytes: the string of the PathBuf
RECURSIVE as_bytes(_)
as_bytes(p) ==
    IF p = Root THEN <<Sep>>
    ELSE IF Len(p) = 1 THEN <<Sep, p[1]>>
    ELSE as_bytes(parent(p)) \o <<Sep, basename(p)>>

\* WPath::try_from
wpath_try_from(dom_id, s) ==
    LET normal(path) == IF path.ok THEN Ok(WNormal(path.val)) ELSE path
    IN IF s = <<"@introduceDomain">> THEN Ok(WIntroduceDomain)
       ELSE IF s = <<"@releaseDomain">> THEN Ok(WReleaseDomain)
       ELSE normal(try_from(dom_id, s))

\* the bytes of a WPath: those of the path, or the name of the sentinel
wpath_as_bytes(w) ==
    IF w = WIntroduceDomain THEN <<"@introduceDomain">>
    ELSE IF w = WReleaseDomain THEN <<"@releaseDomain">>
    ELSE as_bytes(w[2])

\* wire::Header
Header(msg_type, req_id, tx_id, len) ==
    [msg_type |-> msg_type, req_id |-> req_id, tx_id |-> tx_id, len |-> len]

\* Body::to_vec: the fields one after the other
RECURSIVE to_vec(_)
to_vec(fields) ==
    IF fields = <<>> THEN <<>> ELSE Head(fields) \o to_vec(Tail(fields))

\* Body::len, counted in atoms
body_len(fields) == Len(to_vec(fields))

\* a frame as it leaves the server: the header, the fields of the Body and
\* the bytes Body::to_vec makes of them
Encoded(msg_type, md, fields) ==
    [header |-> Header(msg_type, md.req_id, md.tx_id, body_len(fields)),
     fields |-> fields, body |-> to_vec(fields)]

\* Egress::encode, the default of the trait: an empty body
encode_default(msg) == Encoded(msg.msg_type, msg.md, <<>>)

\* TransactionStart::encode: the id in decimal, no terminator
encode_transaction_start(msg) ==
    Encoded(msg.msg_type, msg.md, << <<ToString(msg.payload)>> >>)

\* WatchEvent::new and WatchEvent::encode: node and token, each with a NUL
encode_watch_event(w) ==
    Encoded("XS_WATCH_EVENT", Metadata(w.conn, 0, ROOT_TRANSACTION),
            << wpath_as_bytes(w.node) \o <<NUL>>,
               wpath_as_bytes(w.token) \o <<NUL>> >>)

\* encode of the reply to a request: TransactionStart has an encode of its
\* own, the messages without arguments and ErrorMsg use the default
EncodeReply(msg) ==
    IF msg.msg_type = "XS_TRANSACTION_START"
    THEN encode_transaction_start(msg)
    ELSE encode_default(msg)

\* to_strs: EINVAL when a field is not UTF-8
to_strs(body) ==
    IF \E i \in 1..Len(body) : \E j \in 1..Len(body[i]) : body[i][j] = BadByte
    THEN Err("EINVAL")
    ELSE Ok(body)

\* an ingress message, and the two ways parse ends without one
Ingress(msg_type, path, arg) ==
    [kind |-> "msg", msg_type |-> msg_type, path |-> path, arg |-> arg]
ParseErr(e) == [kind |-> "err", err |-> e]
ParsePanic == [kind |-> "panic"]

parse_path_only(msg_type, dom_id, body) ==
    LET one(strs) ==
            IF ~strs.ok THEN ParseErr(strs.err)
            ELSE IF Len(strs.val) # 1 THEN ParseErr("EINVAL")
            ELSE IF ~try_from(dom_id, strs.val[1]).ok
                 THEN ParseErr(try_from(dom_id, strs.val[1]).err)
            ELSE Ingress(msg_type, try_from(dom_id, strs.val[1]).val, "")
    IN one(to_strs(body))

\* parse_wpaths: strs[0] and strs[1] are indexed without a look at the length
parse_wpaths(msg_type, dom_id, body) ==
    LET both(strs) ==
            IF ~strs.ok THEN ParseErr(strs.err)
            ELSE IF Len(strs.val) < 1 THEN ParsePanic
            ELSE IF ~wpath_try_from(dom_id, strs.val[1]).ok
                 THEN ParseErr(wpath_try_from(dom_id, strs.val[1]).err)
            ELSE IF Len(strs.val) < 2 THEN ParsePanic
            ELSE IF ~wpath_try_from(dom_id, strs.val[2]).ok
                 THEN ParseErr(wpath_try_from(dom_id, strs.val[2]).err)
            ELSE Ingress(msg_type, wpath_try_from(dom_id, strs.val[1]).val,
                         wpath_try_from(dom_id, strs.val[2]).val)
    IN both(to_strs(body))

parse_path_rest(msg_type, dom_id, body) ==
    LET rest(strs) ==
            IF ~strs.ok THEN ParseErr(strs.err)
            ELSE IF Len(strs.val) < 2 THEN ParseErr("EINVAL")
            ELSE IF ~try_from(dom_id, strs.val[1]).ok
                 THEN ParseErr(try_from(dom_id, strs.val[1]).err)
            ELSE Ingress(msg_type, try_from(dom_id, strs.val[1]).val,
                         Tail(strs.val))
    IN rest(to_strs(body))

parse_path_bool(msg_type, body) ==
    LET bool(strs) ==
            IF ~strs.ok THEN ParseErr(strs.err)
            ELSE IF Len(strs.val) # 1 THEN ParseErr("EINVAL")
            ELSE Ingress(msg_type, Root, strs.val[1] = <<"T">>)
    IN bool(to_strs(body))

parse_metadata_only(msg_type) == Ingress(msg_type, Root, "")

\* ingress::parse
parse(conn, header, body) ==
    CASE header.msg_type \in { "XS_MKDIR", "XS_RM" }
            -> parse_path_only(header.msg_type, conn.dom_id, body)
      [] header.msg_type \in { "XS_WRITE", "XS_SET_PERMS" }
            -> parse_path_rest(header.msg_type, conn.dom_id, body)
      [] header.msg_type \in { "XS_WATCH", "XS_UNWATCH" }
            -> parse_wpaths(header.msg_type, conn.dom_id, body)
      [] header.msg_type = "XS_TRANSACTION_START"
            -> parse_metadata_only(header.msg_type)
      [] header.msg_type = "XS_TRANSACTION_END"
            -> parse_path_bool(header.msg_type, body)
      [] OTHER -> ParseErr("EINVAL")

\* the domain ids a permission string can name
DomOf(name) == CHOOSE d \in 0..MaxDom : DomName(d) = name
IsDomName(name) == \E d \in 0..MaxDom : DomName(d) = name

\* SetPerms::process on one string: s[1..].parse().unwrap() and the letter
PermParses(s) == Len(s) = 2 /\ IsDomName(s[2])
PermOf(s) ==
    Permission(DomOf(s[2]),
               CASE s[1] = "r" -> PERM_READ
                 [] s[1] = "w" -> PERM_WRITE
                 [] s[1] = "b" -> PERM_BOTH
                 [] OTHER -> PERM_NONE)

\* a request frame: the type and transaction id of its header and the
\* fields Body::parse found between the NUL bytes of its body
Frame(msg_type, tx_id, body) ==
    [msg_type |-> msg_type, tx_id |-> tx_id, body |-> body]

\* the frames the clients send
WireMenu ==
    << Frame("XS_WATCH", ROOT_TRANSACTION, << <<Sep, "tool">>, <<"tok">> >>),
       Frame("XS_WATCH", ROOT_TRANSACTION, << <<Sep, "tool">>, <<Sep, "tok">> >>),
       Frame("XS_WATCH", ROOT_TRANSACTION,
             << <<Sep, "tool">>, <<"a", Sep, Sep, "b">> >>),
       Frame("XS_WATCH", ROOT_TRANSACTION,
             << <<Sep, "tool">>, <<"@releaseDomain">> >>),
       Frame("XS_WATCH", ROOT_TRANSACTION, << <<Sep, "tool">> >>),
       Frame("XS_UNWATCH", ROOT_TRANSACTION, <<>>),
       Frame("XS_UNWATCH", ROOT_TRANSACTION, << <<Sep, "tool">>, <<"tok">> >>),
       Frame("XS_WRITE", ROOT_TRANSACTION, << <<Sep, "tool">>, <<"v">> >>),
       Frame("XS_WRITE", ROOT_TRANSACTION, << <<Sep, "tool">> >>),
       Frame("XS_WRITE", MaxTxId, << <<Sep, "tool">>, <<"v">> >>),
       Frame("XS_SET_PERMS", ROOT_TRANSACTION,
             << <<Sep, "tool">>, <<"n", "0">>, <<"r", "1">> >>),
       Frame("XS_SET_PERMS", ROOT_TRANSACTION, << <<Sep, "tool">>, <<"r", "x">> >>),
       Frame("XS_RM", ROOT_TRANSACTION, << <<Sep, "a">> >>),
       Frame("XS_RM", ROOT_TRANSACTION, << <<Sep, "a">>, <<Sep, "tool">> >>),
       Frame("XS_MKDIR", ROOT_TRANSACTION, << <<Sep, "a", BadByte>> >>),
       Frame("XS_TRANSACTION_START", ROOT_TRANSACTION, <<>>),
       Frame("XS_TRANSACTION_END", ROOT_TRANSACTION, << <<"T">>, <<"F">> >>),
       Frame("XS_DEBUG", ROOT_TRANSACTION, << <<"print">> >>) >>

NoFrame == Frame("NONE", ROOT_TRANSACTION, <<>>)
NoReply == Encoded("NONE", NoRequest.md, <<>>)

\* what the latest frame led to: the frame, the reply put on the wire (if
\* one was), the watch events encoded for it, and for every watch that was
\* registered the token string its WATCH request carried
Wire(frame, replied, reply, events, supplied) ==
    [fn |-> "receive", done |-> TRUE, frame |-> frame, replied |-> replied,
     reply |-> reply, events |-> events, supplied |-> supplied]

WireInit ==
    /\ store = StoreNew
    /\ generation = 0
    /\ txns = EmptyMap
    /\ watches = {}
    /\ last = Response(NoRequest, Egress("NONE", NoRequest.md, ""), None,
                       NotApplied(StoreNew, 0))
    /\ panicked = FALSE
    /\ ServerNew
    /\ call = Wire(NoFrame, FALSE, NoReply, {}, {})

\* a panic while the request is parsed or processed: no Response is built
Panics(frame, md) ==
    /\ panicked' = TRUE
    /\ last' = Response(Request(frame.msg_type, md, Root, ""),
                        Egress("NONE", md, ""), None,
                        NotApplied(store, generation))
    /\ UNCHANGED <<store, generation, txns, watches>>

\* ProcessMessage for ingress::ErrorMsg
ProcessErrorMsg(frame, md, err) ==
    /\ last' = Response(Request(frame.msg_type, md, Root, ""),
                        ErrorMsg(md, err), None, NotApplied(store, generation))
    /\ UNCHANGED <<store, generation, txns, watches, panicked>>

\* process of the message parse returned
Process(conn, frame, m) ==
    CASE m.kind = "panic" -> Panics(frame, NextMd(conn, frame.tx_id))
      [] m.kind = "err" -> ProcessErrorMsg(frame, NextMd(conn, frame.tx_id), m.err)
      [] m.kind = "msg" /\ m.msg_type = "XS_WATCH"
            -> ProcessWatch(conn, frame.tx_id, m.path, m.arg)
      [] m.kind = "msg" /\ m.msg_type = "XS_UNWATCH"
            -> ProcessUnwatch(conn, frame.tx_id, m.path, m.arg)
      [] m.kind = "msg" /\ m.msg_type = "XS_WRITE"
            -> ProcessWrite(conn, frame.tx_id, m.path, m.arg[1][1])
      [] m.kind = "msg" /\ m.msg_type = "XS_SET_PERMS"
            -> IF \A i \in 1..Len(m.arg) : PermParses(m.arg[i])
               THEN ProcessSetPerms(conn, frame.tx_id, m.path,
                                    [i \in 1..Len(m.arg) |-> PermOf(m.arg[i])])
               ELSE Panics(frame, NextMd(conn, frame.tx_id))
      [] m.kind = "msg" /\ m.msg_type = "XS_MKDIR"
            -> ProcessMkdir(conn, frame.tx_id, m.path)
      [] m.kind = "msg" /\ m.msg_type = "XS_RM"
            -> ProcessRemove(conn, frame.tx_id, m.path)
      [] m.kind = "msg" /\ m.msg_type = "XS_TRANSACTION_START"
            -> ProcessTransactionStart(conn, frame.tx_id)
      [] m.kind = "msg" /\ m.msg_type = "XS_TRANSACTION_END"
            -> ProcessTransactionEnd(conn, frame.tx_id, m.arg)

\* the token strings of the registered watches, after the frame
Supplied(conn, frame) ==
    IF last'.req.msg_type = "XS_WATCH" /\ last'.msg.msg_type = "XS_WATCH"
    THEN call.supplied
            \cup { [watch |-> Watch(conn, last'.req.path, last'.req.arg),
                    token |-> frame.body[2]] }
    ELSE call.supplied

\* Connection::read on a whole frame: parse, process, encode the reply, and
\* encode the watch events as Handler::notify does
Receive(conn, frame) ==
    /\ Process(conn, frame,
               parse(conn, Header(frame.msg_type, last.req.md.req_id + 1,
                                  frame.tx_id, body_len(frame.body)),
                     frame.body))
    /\ call' = Wire(frame, ~panicked', EncodeReply(last'.msg),
                    { [watch |-> w, wire |-> encode_watch_event(w)] :
                         w \in last'.watch_events.set },
                    Supplied(conn, frame))
    /\ UNCHANGED server

WireNext ==
    CanDispatch /\ \E conn \in Conns, i \in DOMAIN WireMenu :
        Receive(conn, WireMenu[i])

WireSpec == WireInit /\ [][WireNext]_vars

\* a frame was received and its request failed with an error
Failed == call.frame.msg_type # "NONE" /\ last.msg.msg_type = "XS_ERROR"

\* C28: a failed request is answered by one reply whose msg_type is
\* XS_ERROR, whose req_id and tx_id are those of the request, and whose body
\* is the name of the error followed by a NUL byte.
C28_ErrorReplyOnWire ==
    Failed =>
        /\ call.replied
        /\ call.reply.header.msg_type = "XS_ERROR"
        /\ call.reply.header.req_id = last.req.md.req_id
        /\ call.reply.header.tx_id = call.frame.tx_id
        /\ call.reply.body = <<last.msg.payload, NUL>>

\* the message types ingress::parse is asked to handle by the clients
KnownTypes ==
    { "XS_WATCH", "XS_UNWATCH", "XS_WRITE", "XS_SET_PERMS", "XS_MKDIR",
      "XS_RM", "XS_TRANSACTION_START", "XS_TRANSACTION_END" }

\* the number of fields the body of a request must have
FieldCountOk(frame) ==
    CASE frame.msg_type \in { "XS_WATCH", "XS_UNWATCH" } -> Len(frame.body) = 2
      [] frame.msg_type \in { "XS_WRITE", "XS_SET_PERMS" } -> Len(frame.body) >= 2
      [] frame.msg_type \in { "XS_MKDIR", "XS_RM", "XS_TRANSACTION_END" }
            -> Len(frame.body) = 1
      [] OTHER -> TRUE

\* a permission string: one of the letters r, w, b, n and a decimal domain id
WellFormedPerm(s) ==
    Len(s) = 2 /\ s[1] \in { "r", "w", "b", "n" } /\ IsDomName(s[2])

Malformed(frame) ==
    \/ frame.msg_type \notin KnownTypes
    \/ ~FieldCountOk(frame)
    \/ /\ frame.msg_type = "XS_SET_PERMS"
       /\ \E i \in 2..Len(frame.body) : ~WellFormedPerm(frame.body[i])

\* C29: a request of an unknown msg_type, with the wrong number of fields or
\* with an unparsable permission string is answered with an EINVAL error
\* reply, and no request takes the connection or the server down.
C29_MalformedIsEINVAL ==
    /\ ~panicked
    /\ (call.frame.msg_type # "NONE" /\ Malformed(call.frame))
          => /\ call.replied
             /\ last.msg = ErrorMsg(last.req.md, "EINVAL")

\* C30: the token of a WATCH_EVENT is byte for byte the token string of the
\* WATCH request that registered the watch, and a WATCH is not refused for
\* what its token string holds.
C30_TokenEchoed ==
    /\ \A e \in call.events :
          \E r \in call.supplied :
             /\ r.watch = e.watch
             /\ Len(e.wire.fields) = 2
             /\ e.wire.fields[2] = r.token \o <<NUL>>
    /\ (/\ call.frame.msg_type = "XS_WATCH"
        /\ Len(call.frame.body) = 2
        /\ wpath_try_from(last.req.md.conn.dom_id, call.frame.body[1]).ok)
          => last.msg.msg_type = "XS_WATCH" \/ last.msg.payload = "EEXIST"

----------------------------------------------------------------------------
(* The order of the list Store::apply returns.  ChangeSet.changes is a     *)
(* std HashMap: ChangeSet::insert is HashMap::insert, and the for loop of  *)
(* Store::apply consumes the map in the order its iterator yields, which   *)
(* the map chooses (from its hasher's random keys) and not the caller.     *)

\* ChangeSet::insert calls made on one changeset
MaxInserts == 3

\* the changes handed to ChangeSet::insert
OrderChanges ==
    LET node(p) == Node(p, "v", {}, <<Permission(DOM0_DOMAIN_ID, PERM_NONE)>>)
    IN UNION { { ChangeWrite(node(p)), ChangeRemove(node(p)) } :
                 p \in { <<"a">>, <<"b">>, <<"tool">> } }

\* the orders in which the iterator of the HashMap can yield its keys
Iterations(cs) ==
    { visit \in [1..Cardinality(DOMAIN cs.changes) -> DOMAIN cs.changes] :
        \A p \in DOMAIN cs.changes : \E i \in DOMAIN visit : visit[i] = p }

\* the AppliedChange one turn of the loop of Store::apply pushes
AppliedOf(path, change) ==
    IF change.kind = "Write" THEN AppliedWrite(path, change.node.permissions)
    ELSE AppliedRemove(path)

\* the Vec<AppliedChange> of Store::apply when the loop visits in this order
apply_list(cs, visit) ==
    [i \in DOMAIN visit |-> AppliedOf(visit[i], cs.changes[visit[i]])]

\* a changeset, the paths in the order they were first inserted, and the
\* list the apply of the changeset returned
OrderCall(cs, order, inserts, done, some, applied) ==
    [fn |-> "apply", cs |-> cs, order |-> order, inserts |-> inserts,
     done |-> done, some |-> some, applied |-> applied]

OrderInit ==
    /\ store = StoreNew
    /\ generation = 0
    /\ txns = EmptyMap
    /\ watches = {}
    /\ last = Response(NoRequest, Egress("NONE", NoRequest.md, ""), None,
                       NotApplied(StoreNew, 0))
    /\ panicked = FALSE
    /\ ServerNew
    /\ call = OrderCall(ChangeSetNew(0), <<>>, 0, FALSE, FALSE, <<>>)

\* ChangeSet::insert
OrderInsert ==
    /\ ~call.done
    /\ call.inserts < MaxInserts
    /\ \E change \in OrderChanges :
          call' = OrderCall(insert(call.cs, change),
                            IF change.node.path \in DOMAIN call.cs.changes
                            THEN call.order
                            ELSE Append(call.order, change.node.path),
                            call.inserts + 1, FALSE, FALSE, <<>>)
    /\ UNCHANGED <<store, generation, txns, watches, last, panicked, server>>

\* Store::apply
OrderApply ==
    /\ ~call.done
    /\ LET a == apply(store, generation, call.cs)
       IN /\ store' = a.store
          /\ generation' = a.generation
          /\ \E visit \in Iterations(call.cs) :
                call' = OrderCall(call.cs, call.order, call.inserts, TRUE,
                                  a.some,
                                  IF a.some THEN apply_list(call.cs, visit)
                                  ELSE <<>>)
    /\ UNCHANGED <<txns, watches, last, panicked, server>>

OrderNext == OrderInsert \/ OrderApply

OrderSpec == OrderInit /\ [][OrderNext]_vars

\* C31: the list a successful apply returns has one entry per entry of the
\* changeset, in the order in which the entries were inserted into it.
C31_AppliedInInsertionOrder ==
    (call.done /\ call.some) =>
        /\ Len(call.applied) = Cardinality(DOMAIN call.cs.changes)
        /\ call.applied = apply_list(call.cs, call.order)

----------------------------------------------------------------------------
(* wire.rs: XenStoreCodec::decode, the Decoder of the framed transport     *)
(* (codec.rs, client.rs).  The buffer is the bytes received so far and not *)
(* yet taken: a 16-byte header whose last four bytes are the length of the *)
(* body, then the body.  What the bytes hold apart from that length does   *)
(* not enter decode's decisions, so a buffer is its number of bytes and    *)
(* the length field its first 16 bytes carry, and a Body is the range of   *)
(* buffer bytes it was split from.                                         *)

HEADER_SIZE == 16
XENSTORE_PAYLOAD_MAX == 4096

\* body lengths up to MaxBody, and those around the largest payload
MaxBody == 3

CodecLens ==
    (0..MaxBody) \cup { HEADER_SIZE + MaxBody }
        \cup ((XENSTORE_PAYLOAD_MAX - 1)..(XENSTORE_PAYLOAD_MAX + 1))

\* numbers of buffered bytes: short of a header, a header and up to one
\* byte more than its body, and the same around the largest payload
CodecSizes ==
    (0..(HEADER_SIZE + MaxBody + HEADER_SIZE + 1))
        \cup ((XENSTORE_PAYLOAD_MAX - 1)..(XENSTORE_PAYLOAD_MAX + 1))
        \cup ((HEADER_SIZE + XENSTORE_PAYLOAD_MAX - 1)
                  ..(HEADER_SIZE + XENSTORE_PAYLOAD_MAX + 2))

\* a BytesMut holding n bytes whose header, once complete, declares len
BytesMut(n, len) == [n |-> n, len |-> len]

\* the outcomes of decode: Ok(None), Ok(Some((header, body))) with the
\* body split from the bytes from..to of the buffer, Err(e), or a panic
DecodeNone == [kind |-> "None", len |-> 0, from |-> 0, to |-> 0]
DecodeSome(len, from, to) ==
    [kind |-> "Some", len |-> len, from |-> from, to |-> to]
DecodeErr == [kind |-> "Err", len |-> 0, from |-> 0, to |-> 0]
DecodePanic == [kind |-> "panic", len |-> 0, from |-> 0, to |-> 0]

\* Header::parse of wire.rs: Err below 16 bytes, else the four fields
header_parse(buf) ==
    IF buf.n < HEADER_SIZE THEN Err("UnexpectedEof") ELSE Ok(buf.len)

\* Body::parse(header, body): None unless body is exactly header.len bytes
\* long; the fields are split from all of the slice it is given
body_parse(len, from, to) ==
    IF len # to - from THEN None ELSE Some(DecodeSome(len, from, to))

\* XenStoreCodec::decode: the buffer is compared with header.len() alone
\* and handed to Body::parse whole, and the Option is unwrapped
decode(buf) ==
    LET unwrap(body) == IF body.some THEN body.set ELSE DecodePanic
        body(header) ==
            IF ~header.ok THEN DecodeErr
            ELSE IF buf.n < header.val THEN DecodeNone
            ELSE unwrap(body_parse(header.val, 0, buf.n))
    IN IF buf.n < HEADER_SIZE THEN DecodeNone ELSE body(header_parse(buf))

CodecCall(buf, done, result) ==
    [fn |-> "decode", buf |-> buf, done |-> done, result |-> result]

CodecInit ==
    /\ store = StoreNew
    /\ generation = 0
    /\ txns = EmptyMap
    /\ watches = {}
    /\ last = Response(NoRequest, Egress("NONE", NoRequest.md, ""), None,
                       NotApplied(StoreNew, 0))
    /\ panicked = FALSE
    /\ ServerNew
    /\ \E n \in CodecSizes, len \in CodecLens :
          call = CodecCall(BytesMut(n, len), FALSE, DecodeNone)

CallDecode ==
    /\ ~call.done
    /\ call' = CodecCall(call.buf, TRUE, decode(call.buf))
    /\ panicked' = (call'.result.kind = "panic")
    /\ UNCHANGED <<store, generation, txns, watches, last, server>>

CodecNext == CallDecode

CodecSpec == CodecInit /\ [][CodecNext]_vars

\* C32: decode returns a complete (Header, Body) exactly when at least
\* 16 + body_len bytes are buffered, body_len being the length field of the
\* buffered header, the body being the body_len bytes behind the header;
\* with fewer bytes it answers that more input is needed and does not fail.
C32_DecodeIffFrameBuffered ==
    call.done =>
        IF call.buf.n >= HEADER_SIZE /\ call.buf.n >= HEADER_SIZE + call.buf.len
        THEN call.result = DecodeSome(call.buf.len, HEADER_SIZE,
                                      HEADER_SIZE + call.buf.len)
        ELSE call.result = DecodeNone

\* C33: a frame whose header declares a body of exactly 4096 bytes is
\* accepted once it is buffered, and a header that declares 4097 bytes or
\* more is answered with an error rather than a wait for more bytes or
\* a decoded frame.
C33_PayloadLimit ==
    (call.done /\ call.buf.n >= HEADER_SIZE) =>
        /\ call.buf.len > XENSTORE_PAYLOAD_MAX => call.result = DecodeErr
        /\ (/\ call.buf.len = XENSTORE_PAYLOAD_MAX
            /\ call.buf.n >= HEADER_SIZE + call.buf.len)
              => call.result.kind = "Some"

----------------------------------------------------------------------------
(* path.rs: the length limits of Path::try_from.  A string of thousands of *)
(* bytes is written as its runs: <<Run("/", 1), Run("a", 3071)>> is a /    *)
(* followed by 3071 times the byte a.                                      *)

MAX_RELATIVE == 2048
MAX_ABSOLUTE == 3072

\* runs of a string handed to Path::try_from
MaxRuns == 3

Run(ch, n) == [ch |-> ch, n |-> n]

\* the lengths of a run: short ones and those that reach the two limits
RunLens ==
    { 1, 2 } \cup ((MAX_RELATIVE - 1)..(MAX_RELATIVE + 1))
             \cup ((MAX_ABSOLUTE - 1)..(MAX_ABSOLUTE + 1))

PathStrings ==
    UNION { [1..k -> { Run(ch, n) : ch \in { Sep, "a" }, n \in RunLens }] :
              k \in 0..MaxRuns }

\* str::len
RECURSIVE str_len(_)
str_len(s) == IF s = <<>> THEN 0 ELSE Head(s).n + str_len(Tail(s))

\* Path::try_from with limits that refuse a string of the limit's length
path_try_from_below(dom_id, s) ==
    LET doubled == \E i \in DOMAIN s :
                      /\ s[i].ch = Sep
                      /\ s[i].n >= 2 \/ (i < Len(s) /\ s[i + 1].ch = Sep)
    IN IF s = <<>> THEN Err("EINVAL")
       ELSE IF doubled THEN Err("EINVAL")
       ELSE IF s # <<Run(Sep, 1)>> /\ s[Len(s)].ch = Sep THEN Err("EINVAL")
       ELSE IF s[1].ch = Sep
            THEN IF str_len(s) >= MAX_ABSOLUTE THEN Err("EINVAL")
                 ELSE Ok([under |-> <<>>, input |-> s])
            ELSE IF str_len(s) >= MAX_RELATIVE THEN Err("EINVAL")
                 ELSE Ok([under |-> get_domain_path(dom_id), input |-> s])

\* Path::try_from on the bytes of the string: s == "", s.contains("//"),
\* s != "/" && s.ends_with("/"), then s.len() against MAX_ABSOLUTE for an
\* absolute string and against MAX_RELATIVE for a relative one, which is
\* pushed onto the domain's path
path_try_from(dom_id, s) ==
    LET doubled == \E i \in DOMAIN s :
                      /\ s[i].ch = Sep
                      /\ s[i].n >= 2 \/ (i < Len(s) /\ s[i + 1].ch = Sep)
    IN IF s = <<>> THEN Err("EINVAL")
       ELSE IF doubled THEN Err("EINVAL")
       ELSE IF s # <<Run(Sep, 1)>> /\ s[Len(s)].ch = Sep THEN Err("EINVAL")
       ELSE IF s[1].ch = Sep
            THEN IF str_len(s) > MAX_ABSOLUTE THEN Err("EINVAL")
                 ELSE Ok([under |-> <<>>, input |-> s])
            ELSE IF str_len(s) > MAX_RELATIVE THEN Err("EINVAL")
                 ELSE Ok([under |-> get_domain_path(dom_id), input |-> s])

PathCall(dom_id, s, done, result) ==
    [fn |-> "try_from", dom_id |-> dom_id, s |-> s, done |-> done,
     result |-> result]

PathInit ==
    /\ store = StoreNew
    /\ generation = 0
    /\ txns = EmptyMap
    /\ watches = {}
    /\ last = Response(NoRequest, Egress("NONE", NoRequest.md, ""), None,
                       NotApplied(StoreNew, 0))
    /\ panicked = FALSE
    /\ ServerNew
    /\ \E dom_id \in { DOM0_DOMAIN_ID, 1 }, s \in PathStrings :
          call = PathCall(dom_id, s, FALSE, Err("NONE"))

CallTryFrom ==
    /\ ~call.done
    /\ call' = PathCall(call.dom_id, call.s, TRUE,
                        path_try_from(call.dom_id, call.s))
    /\ UNCHANGED <<store, generation, txns, watches, last, panicked, server>>

PathNext == CallTryFrom

PathSpec == PathInit /\ [][PathNext]_vars

\* the string begins with /, holds //, ends in /
Absolute(s) == s # <<>> /\ Head(s).ch = Sep
HasDoubledSlash(s) ==
    \/ \E i \in DOMAIN s : s[i].ch = Sep /\ s[i].n > 1
    \/ \E i \in 1..(Len(s) - 1) : s[i].ch = Sep /\ s[i + 1].ch = Sep
EndsInSlash(s) == s # <<>> /\ s[Len(s)].ch = Sep
\* none of the three refusals that do not depend on the length
Shaped(s) ==
    /\ s # <<>>
    /\ ~HasDoubledSlash(s)
    /\ EndsInSlash(s) => s = <<Run(Sep, 1)>>

\* C34: Path construction accepts an absolute path of exactly 3072 bytes
\* and a relative path of exactly 2048 bytes, and refuses with EINVAL a
\* path one byte longer than its limit, the empty path, a path holding //
\* and every path other than / that ends in /.
C34_PathLimits ==
    call.done =>
        /\ (Shaped(call.s) /\ Absolute(call.s) /\ str_len(call.s) = 3072)
              => call.result.ok
        /\ (Shaped(call.s) /\ ~Absolute(call.s) /\ str_len(call.s) = 2048)
              => call.result.ok
        /\ (Absolute(call.s) /\ str_len(call.s) = 3073)
              => call.result = Err("EINVAL")
        /\ (~Absolute(call.s) /\ str_len(call.s) = 2049)
              => call.result = Err("EINVAL")
        /\ call.s = <<>> => call.result = Err("EINVAL")
        /\ HasDoubledSlash(call.s) => call.result = Err("EINVAL")
        /\ (EndsInSlash(call.s) /\ call.s # <<Run(Sep, 1)>>)
              => call.result = Err("EINVAL")

\* an absolute path of exactly 3072 bytes was accepted
C34_Witness ==
    /\ call.fn = "try_from"
    /\ call.done
    /\ call.s = <<Run(Sep, 1), Run("a", 3071)>>
    /\ call.result.ok

----------------------------------------------------------------------------
(* server.rs byte by byte: what Connection::read takes from its socket and *)
(* what Connection::write puts on it.  A client sends a script of frames;  *)
(* the bytes of its stream are numbered from 1 and a Vec<u8> of a State is *)
(* the sequence of the numbers of the bytes it holds.  The bytes arrive in *)
(* pieces, and a read takes what has arrived, up to the room its Vec has   *)
(* (try_read_buf fills the spare capacity; a Vec without spare capacity    *)
(* grows first).  server.rs is written against the wire.rs next to         *)
(* store.rs, whose Header::parse returns an Option and whose Body::parse   *)
(* wants a body that is not empty and ends in a NUL byte.                  *)

\* frames in the script of a client
MaxFrames == 3
\* connections accepted in one behaviour of the byte-level model
MaxConns == 1

\* a request frame: its type, the length its header declares and the
\* positions of its body that hold a NUL byte
IoFrame(msg_type, len, nuls) == [msg_type |-> msg_type, len |-> len, nuls |-> nuls]

\* WATCH "/tool" "/tool", WRITE "/tool" "v" with a closing NUL, and
\* TRANSACTION_START with an empty body
IoMenu ==
    << IoFrame("XS_WATCH", 12, { 6, 12 }),
       IoFrame("XS_WRITE", 8, { 6, 8 }),
       IoFrame("XS_TRANSACTION_START", 0, {}) >>

IoScripts == UNION { [1..k -> DOMAIN IoMenu] : k \in 1..MaxFrames }

\* the number of the last byte before frame j of the script
RECURSIVE FrameStart(_, _)
FrameStart(script, j) ==
    IF j = 1 THEN 0
    ELSE FrameStart(script, j - 1) + HEADER_SIZE + IoMenu[script[j - 1]].len

FrameEnd(script, j) == FrameStart(script, j) + HEADER_SIZE + IoMenu[script[j]].len

\* where a piece sent by the client can end: in the middle of a header,
\* after the header, one byte short of the body's end, after the frame
Cuts(script) ==
    UNION { { FrameStart(script, j) + HEADER_SIZE \div 2,
              FrameStart(script, j) + HEADER_SIZE,
              FrameEnd(script, j) - 1,
              FrameEnd(script, j) } : j \in DOMAIN script }

\* byte o of the stream is a NUL byte
NulAt(script, o) ==
    \E j \in DOMAIN script :
       \E k \in IoMenu[script[j]].nuls :
          o = FrameStart(script, j) + HEADER_SIZE + k

\* a Buffer of the TransmissionQueue: a Cursor over len bytes at pos
Cursor(part, msg_type, len) ==
    [part |-> part, msg_type |-> msg_type, len |-> len, pos |-> 0]

NoCursor == [part |-> "none", msg_type |-> "NONE", len |-> 0, pos |-> 0]

\* a wire::Header parsed from the 16 bytes that begin with byte from
IoHeader(from, msg_type, len) == [from |-> from, msg_type |-> msg_type, len |-> len]

NoHeader == IoHeader(0, "NONE", 0)

\* Header::parse (src/src/wire.rs): None below 16 bytes; the four words of
\* the first 16 bytes otherwise.  Bytes that begin a frame of the script
\* give its header; 16 bytes from elsewhere in the stream spell some type
\* the server does not know and some length.
io_header_parse(script, buf) ==
    IF Len(buf) < HEADER_SIZE THEN {}
    ELSE IF \E j \in DOMAIN script : FrameStart(script, j) + 1 = buf[1]
    THEN { IoHeader(buf[1], IoMenu[script[j]].msg_type, IoMenu[script[j]].len) :
             j \in { i \in DOMAIN script : FrameStart(script, i) + 1 = buf[1] } }
    ELSE { IoHeader(buf[1], "XS_INVALID", len) : len \in { 0, 8 } }

\* Body::parse (src/src/wire.rs): Some only for a body of header.len
\* bytes that is not empty and ends in NUL
io_body_parse(script, header, buf) ==
    /\ header.len = Len(buf)
    /\ Len(buf) # 0
    /\ NulAt(script, buf[Len(buf)])

\* Connection::new, with the socket's two directions: arrived counts the
\* bytes the client has sent, taken those the server has read; consumed
\* counts the bytes of the requests processed, served those requests, and
\* popped is the Buffer that left tx_q last
IoConnection(token) ==
    [conn |-> ConnId(token, DOM0_DOMAIN_ID), state |-> "AwaitingHeader",
     buf |-> <<>>, header |-> NoHeader, tx_q |-> <<>>, popped |-> NoCursor,
     arrived |-> 0, taken |-> 0, consumed |-> 0, served |-> 0,
     failed |-> FALSE]

\* the client and the script it sends
Client(script) == [fn |-> "client", done |-> FALSE, script |-> script]

IoInit ==
    /\ store = StoreNew
    /\ generation = 0
    /\ txns = EmptyMap
    /\ watches = {}
    /\ last = Response(NoRequest, Egress("NONE", NoRequest.md, ""), None,
                       NotApplied(StoreNew, 0))
    /\ panicked = FALSE
    /\ ServerNew
    /\ \E script \in IoScripts : call = Client(script)

\* Server::accept, as Accept above, for a connection with its socket
IoAccept(token, registered) ==
    /\ Turn
    /\ accepted < MaxConns
    /\ token \notin DOMAIN conns
    /\ accepted' = accepted + 1
    /\ LET c == IoConnection(token)
       IN IF registered
          THEN /\ conns' = [t \in (DOMAIN conns) \cup {token} |->
                              IF t = token THEN c ELSE conns[t]]
               /\ UNCHANGED <<watches, txns, lastclose>>
          ELSE /\ conns' = [t \in (DOMAIN conns) \cup {token} |->
                              IF t = token THEN [c EXCEPT !.state = "Closed"]
                              ELSE conns[t]]
               /\ watches' = watch_reset(watches, c.conn)
               /\ txns' = txn_reset(txns, c.conn)
               /\ lastclose' = Removed({ c.conn })
    /\ UNCHANGED <<store, generation, last, panicked, call, channel, running>>

\* the client writes the next piece of its script to the socket
ClientSend(token) ==
    /\ Turn
    /\ token \in DOMAIN conns
    /\ \E cut \in Cuts(call.script) :
          /\ cut > conns[token].arrived
          /\ \A other \in Cuts(call.script) :
                other > conns[token].arrived => cut <= other
          /\ conns' = [conns EXCEPT ![token].arrived = cut]
    /\ UNCHANGED <<store, generation, txns, watches, last, panicked, call,
                   channel, running, accepted, lastclose>>

\* try_read_buf: the bytes that have arrived, as far as the Vec has room
\* for them; a Vec that is full grows and takes them all
try_read_buf(c, capacity) ==
    LET avail == c.arrived - c.taken
        room == capacity - Len(c.buf)
        n == IF room <= 0 \/ avail <= room THEN avail ELSE room
    IN [c EXCEPT !.buf = @ \o [i \in 1..n |-> c.taken + i],
                 !.taken = @ + n]

\* the reregister at the end of Connection::ready: on failure the
\* connection is closed and Handler::ready takes it out of the slab
Rearm(token, c, rearmed) ==
    IF rearmed
    THEN /\ conns' = [conns EXCEPT ![token] = c]
         /\ UNCHANGED <<watches, txns, lastclose>>
    ELSE CloseAndRemove(token)

\* Connection::read in AwaitingHeader: read_header, and with a header the
\* transition to AwaitingBody with an empty Vec
IoReadHeader(token, rearmed) ==
    LET c == try_read_buf(conns[token], HEADER_SIZE)
        headers == io_header_parse(call.script, c.buf)
    IN /\ IF c.taken = conns[token].taken \/ headers = {}
          THEN Rearm(token, c, rearmed)
          ELSE \E header \in headers :
                  Rearm(token, [c EXCEPT !.state = "AwaitingBody",
                                         !.header = header, !.buf = <<>>],
                        rearmed)
       /\ UNCHANGED <<store, generation, last, panicked, call, channel,
                      running, accepted>>

\* ingress::parse(conn, header, body).process(system) for the frames of the
\* script; a header of a type the server does not know is answered EINVAL
IoProcess(conn, header) ==
    CASE header.msg_type = "XS_WATCH"
            -> ProcessWatch(conn, ROOT_TRANSACTION, WNormal(<<"tool">>),
                            WNormal(<<"tool">>))
      [] header.msg_type = "XS_WRITE"
            -> ProcessWrite(conn, ROOT_TRANSACTION, <<"tool">>, "v")
      [] header.msg_type = "XS_TRANSACTION_START"
            -> ProcessTransactionStart(conn, ROOT_TRANSACTION)
      [] OTHER
            -> ProcessErrorMsg(header, NextMd(conn, ROOT_TRANSACTION), "EINVAL")

\* Connection::enqueue: the header and the body of the message go to the
\* back of tx_q; a connection in AwaitingHeader becomes Write, its State
\* with the Vec of header bytes is replaced, and it is reregistered; when
\* that fails the connection is closed
io_enqueue(c, msg_type, len, rearmed) ==
    LET q == c.tx_q \o << Cursor("hdr", msg_type, HEADER_SIZE),
                          Cursor("body", msg_type, len) >>
    IN IF c.state = "AwaitingHeader"
       THEN [c EXCEPT !.tx_q = q, !.buf = <<>>,
                      !.state = IF rearmed THEN "Write" ELSE "Closed"]
       ELSE [c EXCEPT !.tx_q = q]

\* Connection::read in AwaitingBody: read_body, and with a body the
\* request is processed, the state becomes Write, the reply is enqueued
\* and the watches that fired are sent on the channel
IoReadBody(token, rearmed) ==
    LET c == try_read_buf(conns[token], conns[token].header.len)
    IN IF io_body_parse(call.script, c.header, c.buf)
       THEN /\ IoProcess(c.conn, c.header)
            /\ conns' =
                  IF panicked' THEN conns
                  ELSE [conns EXCEPT ![token] =
                          io_enqueue([c EXCEPT !.state = "Write",
                                               !.buf = <<>>,
                                               !.header = NoHeader,
                                               !.consumed = @ + HEADER_SIZE
                                                              + c.header.len,
                                               !.served = @ + 1,
                                               !.failed = ~rearmed],
                                     last'.msg.msg_type,
                                     EncodeReply(last'.msg).header.len, TRUE)]
            /\ channel' =
                  IF ~panicked' /\ last'.watch_events.some
                  THEN Append(channel, last'.watch_events.set)
                  ELSE channel
            /\ UNCHANGED <<call, running, accepted, lastclose>>
       ELSE /\ Rearm(token, c, rearmed)
            /\ UNCHANGED <<store, generation, last, panicked, call, channel,
                           running, accepted>>

\* write_bytes: try_write_buf moves the cursor by the n bytes the socket
\* took, and the buffer counts as sent when n equals the cursor's position
write_bytes(bytes, n) ==
    [bytes |-> [bytes EXCEPT !.pos = @ + n], success |-> n = bytes.pos + n]

\* Connection::write: one write_bytes on the front of tx_q; on success the
\* front is popped, and AwaitingHeader begins when tx_q is empty
io_write(c, n) ==
    LET w == write_bytes(Head(c.tx_q), n)
    IN IF w.success
       THEN [c EXCEPT !.tx_q = Tail(@), !.popped = w.bytes,
                      !.state = IF Tail(c.tx_q) = <<>> THEN "AwaitingHeader"
                                ELSE @]
       ELSE [c EXCEPT !.tx_q = <<w.bytes>> \o Tail(@)]

\* the numbers of bytes the socket takes of a buffer with left bytes to
\* go: all of them, or half of them
Taken(left) == { left, left \div 2 }

\* Connection::write with what the socket takes, then the reregister
IoWrite(token, rearmed) ==
    /\ IF conns[token].tx_q = <<>>
       THEN /\ panicked' = TRUE
            /\ UNCHANGED <<conns, watches, txns, lastclose>>
       ELSE /\ UNCHANGED panicked
            /\ \E n \in Taken(Head(conns[token].tx_q).len
                                - Head(conns[token].tx_q).pos) :
                  Rearm(token, io_write(conns[token], n), rearmed)
    /\ UNCHANGED <<store, generation, last, call, channel, running, accepted>>

\* the flags of an EventSet
EventSets == SUBSET { "readable", "writable", "error", "hup" }

\* Handler::ready for a connection: Connection::ready, and the removal of
\* a connection it closed.  The asserts on the flags and unimplemented!()
\* for a Closed connection panic.
IoReady(token, events, rearmed) ==
    /\ Turn
    /\ token \in DOMAIN conns
    /\ IF "error" \in events \/ "hup" \in events
       THEN /\ CloseAndRemove(token)
            /\ UNCHANGED <<store, generation, last, panicked, call, channel,
                           running, accepted>>
       ELSE IF \/ conns[token].state = "Closed"
               \/ /\ conns[token].state \in { "AwaitingHeader", "AwaitingBody" }
                  /\ "readable" \notin events
               \/ conns[token].state = "Write" /\ "writable" \notin events
       THEN /\ panicked' = TRUE
            /\ UNCHANGED <<store, generation, txns, watches, last, call,
                           server>>
       ELSE IF conns[token].state = "AwaitingHeader"
       THEN IoReadHeader(token, rearmed)
       ELSE IF conns[token].state = "AwaitingBody"
       THEN IoReadBody(token, rearmed)
       ELSE IoWrite(token, rearmed)

\* the loop of Handler::notify, as Deliver above: each watch of the message
\* is encoded and enqueued on the connection in the slot of its token
RECURSIVE IoDeliver(_, _, _)
IoDeliver(slab, order, bad) ==
    LET after(c, w) ==
            io_enqueue(c, "XS_WATCH_EVENT", encode_watch_event(w).header.len,
                       c.conn.token \notin bad)
        more(closes, c, rest) ==
            IF closes THEN [rest EXCEPT !.closed = @ \cup { c.conn }] ELSE rest
        step(w, t) ==
            IF t \notin DOMAIN slab
            THEN [conns |-> slab, ok |-> FALSE, closed |-> {}]
            ELSE more(slab[t].state = "AwaitingHeader" /\ t \in bad, slab[t],
                      IoDeliver([slab EXCEPT ![t] = after(@, w)], Tail(order),
                                bad))
    IN IF order = <<>> THEN [conns |-> slab, ok |-> TRUE, closed |-> {}]
       ELSE step(Head(order), Head(order).conn.token)

\* Handler::notify for the oldest message of the channel
IoNotify ==
    /\ Turn
    /\ channel # <<>>
    /\ channel' = Tail(channel)
    /\ \E order \in Orders(Head(channel)) :
         \E bad \in SUBSET { t \in DOMAIN conns :
                               /\ conns[t].state = "AwaitingHeader"
                               /\ \E w \in Head(channel) : w.conn.token = t } :
            LET delivered(r) ==
                    IF ~r.ok
                    THEN /\ panicked' = TRUE
                         /\ UNCHANGED <<conns, watches, txns, lastclose>>
                    ELSE /\ conns' = r.conns
                         /\ watches' = watch_reset_all(watches, r.closed)
                         /\ txns' = txn_reset_all(txns, r.closed)
                         /\ lastclose' = IF r.closed = {} THEN lastclose
                                         ELSE Removed(r.closed)
                         /\ UNCHANGED panicked
            IN delivered(IoDeliver(conns, order, bad))
    /\ UNCHANGED <<store, generation, last, call, running, accepted>>

IoNext ==
    \/ \E token \in 1..MaxConns, registered \in BOOLEAN :
          IoAccept(token, registered)
    \/ \E token \in 1..MaxConns : ClientSend(token)
    \/ \E token \in 1..MaxConns, events \in EventSets, rearmed \in BOOLEAN :
          IoReady(token, events, rearmed)
    \/ \E token \in 1..MaxConns : FinishClose(token)
    \/ IoNotify

\* Handler::ready with the event the connection is registered for:
\* readable in AwaitingHeader and AwaitingBody, writable in Write
IoServe(token) ==
    /\ token \in DOMAIN conns
    /\ conns[token].state # "Closed"
    /\ IoReady(token,
               IF conns[token].state = "Write" THEN { "writable" }
               ELSE { "readable" },
               TRUE)

\* the event loop reports a socket that can be read or written, lets a
\* handler finish and hands over every message sent on its channel
IoFair ==
    /\ WF_vars(\E token \in 1..MaxConns : IoServe(token))
    /\ WF_vars(\E token \in 1..MaxConns : FinishClose(token))
    /\ WF_vars(IoNotify)

IoSpec == IoInit /\ [][IoNext]_vars

\* the same server under a reactor that keeps delivering events
IoLiveSpec == IoSpec /\ IoFair

\* C35: a buffer leaves tx_q only after all of its bytes were written to
\* the socket; after a partial write the connection stays in Write with
\* that buffer at the front, so that its remaining bytes are sent before
\* any later buffer.
C35_PoppedOnlyWhenWritten ==
    \A token \in DOMAIN conns :
       /\ conns[token].popped.pos = conns[token].popped.len
       /\ \A i \in DOMAIN conns[token].tx_q :
             conns[token].tx_q[i].pos > 0 =>
                i = 1 /\ conns[token].state \in { "Write", "Closed" }

\* the flags do not fit the state of the connection: not readable in
\* AwaitingHeader or AwaitingBody, not writable in Write, or any event for
\* a Closed connection
Misfit(c, events) ==
    \/ c.state = "Closed"
    \/ /\ "error" \notin events
       /\ "hup" \notin events
       /\ \/ c.state \in { "AwaitingHeader", "AwaitingBody" }
             /\ "readable" \notin events
          \/ c.state = "Write" /\ "writable" \notin events

\* C36: a readiness event whose flags do not fit the connection's state
\* closes that connection and nothing else: the server keeps running and
\* the other connections are as they were.
C36_MisfitClosesOnlyThatConnection ==
    [][\A token \in DOMAIN conns, events \in EventSets :
          (Misfit(conns[token], events) /\ IoReady(token, events, TRUE))
             => /\ ~panicked'
                /\ running'
                /\ token \in DOMAIN conns' => conns'[token].state = "Closed"
                /\ \A other \in (DOMAIN conns) \ { token } :
                      other \in DOMAIN conns' /\ conns'[other] = conns[other]]_vars

\* frame j of the script has arrived whole on the open connection in slot
\* token and has not been processed
Pending(token, j) ==
    IF token \in DOMAIN conns /\ j \in DOMAIN call.script
    THEN /\ conns[token].state # "Closed"
         /\ conns[token].arrived >= FrameEnd(call.script, j)
         /\ conns[token].consumed < FrameEnd(call.script, j)
    ELSE FALSE

\* C37: under a fair reactor every request whose frame has arrived whole
\* (16 bytes of header and the body_len bytes it declares, body_len = 0
\* included) on an open connection is in the end processed and its reply
\* queued: the connection does not stay in AwaitingBody for ever.
C37_ArrivedFrameIsServed ==
    \A token \in 1..MaxConns, j \in 1..MaxFrames :
       Pending(token, j) ~> (panicked \/ ~Pending(token, j))

\* C38: no request byte the server has read is lost, an enqueue of a watch
\* event in AwaitingHeader included: every byte taken from the socket is
\* part of a request already processed, of the header parsed, or is held in
\* the Vec of the connection's state, from which the next header is parsed.
C38_NoReceivedByteLost ==
    \A token \in DOMAIN conns :
       conns[token].state # "Closed" =>
          conns[token].taken =
              conns[token].consumed + Len(conns[token].buf)
                 + (IF conns[token].state = "AwaitingBody" THEN HEADER_SIZE
                    ELSE 0)

\* C39: between two callbacks of the event loop no connection in the slab
\* is Closed: a connection that closed on any path, a failed registration
\* in accept and a failed reregistration in enqueue included, has been
\* removed from the slab.
C39_NoClosedConnectionInSlab ==
    (Quiet /\ ~panicked) =>
       \A token \in DOMAIN conns : conns[token].state # "Closed"

\* C40: every mutation on the root transaction that succeeds (WRITE, MKDIR,
\* RM, SET_PERMS with tx_id 0) is applied at the current generation, is
\* never refused as stale and raises the generation by exactly one, also
\* when its changeset is empty (mkdir of an existing node); every
\* transaction open at that moment then fails to commit.
C40_RootMutationAdvancesGeneration ==
    [][(/\ Dispatch
        /\ last'.req.msg_type \in Mutations
        /\ last'.req.md.tx_id = ROOT_TRANSACTION
        /\ last'.msg.msg_type = last'.req.msg_type)
       => (/\ last'.apply.called
           /\ last'.apply.some
           /\ last'.apply.parent = generation
           /\ last'.apply.at = generation
           /\ generation' = generation + 1
           /\ txns' = txns
           /\ \A id \in DOMAIN txns' :
                 /\ txn_end(txns', store', generation', txns'[id].conn, id,
                            TRUE).ok
                 /\ ~txn_end(txns', store', generation', txns'[id].conn, id,
                             TRUE).val.applied.some)]_vars

\* a mkdir of an existing node on the root transaction was applied with an
\* empty change list while a transaction was open, and the transaction is
\* stale now
C40_Witness ==
    /\ last.req.msg_type = "XS_MKDIR"
    /\ last.req.md.tx_id = ROOT_TRANSACTION
    /\ last.msg.msg_type = "XS_MKDIR"
    /\ last.apply.some
    /\ last.apply.applied = {}
    /\ generation = last.apply.at + 1
    /\ \E id \in DOMAIN txns : txns[id].changes.parent < generation

====
